---- MODULE Spec2Model ----
(***************************************************************************)
(* A model of the pysimm topology engine (src/pysimm/system.py): the       *)
(* tagged stores of a System, the tag maintenance passes, the force-field  *)
(* type resolver, the bonded-term synthesizer and the LAMMPS data codec.   *)
(***************************************************************************)
EXTENDS Integers, Sequences, FiniteSets, TLC

(* ----------------------------- bounds ---------------------------------- *)
MaxP == 5
MaxRemovals == 2
MaxAdds == 2

PIDS == 1..MaxP

(* ------------------------- sequence helpers ---------------------------- *)
Range(s) == {s[i] : i \in DOMAIN s}

RECURSIVE Flatten(_)
Flatten(ss) == IF ss = <<>> THEN <<>> ELSE Head(ss) \o Flatten(Tail(ss))

SetMax(S) == IF S = {} THEN 0
             ELSE LET x == CHOOSE y \in S : \A z \in S : z <= y IN x

Reverse(s) == [i \in 1..Len(s) |-> s[Len(s) + 1 - i]]

(* ------------------- ItemContainer (pysimm.utils) ---------------------- *)
(* A container is the sequence of its items in insertion order; an item is *)
(* a record whose field tag is the key it is stored under (0: no tag).     *)
Tags(c) == {c[i].tag : i \in DOMAIN c}

NextTag(c) == SetMax(Tags(c)) + 1

HasTag(c, t) == t \in Tags(c)

ItemAt(c, t) == c[CHOOSE i \in DOMAIN c : c[i].tag = t]

ContainerAdd(c, item) ==
    IF item.tag = 0 THEN Append(c, [item EXCEPT !.tag = NextTag(c)])
    ELSE IF HasTag(c, item.tag)
         THEN [i \in DOMAIN c |-> IF c[i].tag = item.tag THEN item ELSE c[i]]
         ELSE Append(c, item)

Renumber(c) == [i \in DOMAIN c |-> [c[i] EXCEPT !.tag = i]]

ContainerRemove(c, t, update) ==
    LET d == SelectSeq(c, LAMBDA x : x.tag # t)
    IN  IF update THEN Renumber(d) ELSE d

ContainerRemoveAll(c) == <<>>

ContainerGetAll(c) == c

Count(c) == Len(c)

(* --------------------------- program state ----------------------------- *)
VARIABLES
    particles,        \* System.particles: items [tag, id]
    particle_types,   \* System.particle_types: items [tag, id, name, src]
    bonds,            \* System.bonds: items [tag, type, a, b]
    bond_types,       \* System.bond_types: items [tag, id, name, src]
    angles,           \* System.angles: items [tag, type, a, b, c]
    angle_types,
    dihedrals,        \* System.dihedrals: items [tag, type, a, b, c, d]
    dihedral_types,
    impropers,        \* System.impropers: items [tag, type, a, b, c, d]
    improper_types,
    molecules,        \* System.molecules: items [tag, id]
    mtag,             \* Molecule.tag of every Molecule object
    mparts,           \* Molecule.particles of every Molecule object
    pmol,             \* Particle.molecule
    ptype,            \* name of Particle.type
    bonded_to,        \* Particle.bonded_to: [has, to]
    pbonds,           \* Particle.bonds: [has, of], of the tags of its Bonds
    ff_class,         \* System.ff_class
    lib,              \* the Forcefield object f handed to the add_ calls
    tid,              \* number of type objects created so far
    last,             \* the call made last and its arguments
    pre,              \* the stores as they were when that call was made
    nrem,             \* removals made
    nadd,             \* synthesizer calls made
    style,            \* System.pair_style, bond_style, angle_style, ...
    write_coeffs,     \* System.write_coeffs
    data,             \* the text write_lammps returned last
    loaded,           \* the outcome of the last read_lammps
    coords,           \* Particle.x, y, z of every Particle object
    dim,              \* System.dim: xlo, xhi, ylo, yhi, zlo, zhi
    was,              \* the coordinates when the last call was made
    returned          \* what the last call returned

vars == <<particles, particle_types, bonds, bond_types, angles, angle_types,
          dihedrals, dihedral_types, impropers, improper_types, molecules,
          mtag, mparts, pmol, ptype, bonded_to, pbonds, ff_class, lib, tid, last,
          pre, nrem, nadd, style, write_coeffs, data, loaded, coords, dim,
          was, returned>>

codec == <<style, write_coeffs, data, loaded>>

geometry == <<coords, dim, was, returned>>

StoreNames == {"particles", "particle_types", "bonds", "bond_types", "angles",
               "angle_types", "dihedrals", "dihedral_types", "impropers",
               "improper_types"}

Sys == [particles |-> particles, particle_types |-> particle_types,
        bonds |-> bonds, bond_types |-> bond_types,
        angles |-> angles, angle_types |-> angle_types,
        dihedrals |-> dihedrals, dihedral_types |-> dihedral_types,
        impropers |-> impropers, improper_types |-> improper_types,
        molecules |-> molecules, mtag |-> mtag, mparts |-> mparts,
        pmol |-> pmol, ptype |-> ptype, bonded_to |-> bonded_to,
        pbonds |-> pbonds,
        ff_class |-> ff_class, tid |-> tid]

SetSys(S) ==
    /\ particles' = S.particles
    /\ particle_types' = S.particle_types
    /\ bonds' = S.bonds
    /\ bond_types' = S.bond_types
    /\ angles' = S.angles
    /\ angle_types' = S.angle_types
    /\ dihedrals' = S.dihedrals
    /\ dihedral_types' = S.dihedral_types
    /\ impropers' = S.impropers
    /\ improper_types' = S.improper_types
    /\ molecules' = S.molecules
    /\ mtag' = S.mtag
    /\ mparts' = S.mparts
    /\ pmol' = S.pmol
    /\ ptype' = S.ptype
    /\ bonded_to' = S.bonded_to
    /\ pbonds' = S.pbonds
    /\ ff_class' = S.ff_class
    /\ tid' = S.tid

Snapshot == Sys

Call(op, a, b, upd) == [op |-> op, a |-> a, b |-> b, upd |-> upd, args |-> <<a, b>>]

CallOn(op, args) == [op |-> op, a |-> args[1], b |-> args[2], upd |-> FALSE,
                     args |-> args]

ParticleIds(S) == {S.particles[i].id : i \in DOMAIN S.particles}

(* ------------------------- type names and lookup ------------------------ *)
(* A type name is the sequence of its comma-separated tokens.              *)
Wild == "X"

\* str.count('X') of one token of the names used here
TokenCountX(tok) == CASE tok = "X" -> 1
                      [] tok = "AX" -> 1
                      [] tok = "XX" -> 2
                      [] OTHER -> 0

RECURSIVE NameCountX(_)
NameCountX(name) == IF name = <<>> THEN 0
                    ELSE TokenCountX(Head(name)) + NameCountX(Tail(name))

WildTokens(name) == Cardinality({i \in DOMAIN name : name[i] = Wild})

PosMatch(itemName, q, wildcard) ==
    /\ Len(itemName) = Len(q)
    /\ \A i \in DOMAIN q : itemName[i] = q[i] \/ (wildcard /\ itemName[i] = Wild)

NameMatch(itemName, q, wildcard, improper) ==
    \/ PosMatch(itemName, q, wildcard)
    \/ ~improper /\ PosMatch(Reverse(itemName), q, wildcard)

\* ItemContainer.get(name, item_wildcard=..., improper_type=...)
ContainerGet(c, q, wildcard, improper) ==
    SelectSeq(c, LAMBDA x : NameMatch(x.name, q, wildcard, improper))

\* Item.copy() of a type, ready to be added under a fresh tag
TypeCopy(t, newid, from) == [tag |-> 0, id |-> newid, name |-> t.name, src |-> from]

TypeRef(home, id) == [home |-> home, id |-> id]

OwnRef(t) == TypeRef("sys", t.id)

NoRef == TypeRef("none", 0)

(* ------------------------- force-field libraries ------------------------ *)
LibStore(names) == [i \in DOMAIN names |->
                      [tag |-> i, id |-> i, name |-> names[i], src |-> i]]

LibRich ==
    [given |-> TRUE,
     bond_types |-> LibStore(<< <<"A","A">>, <<"A","B">>, <<"B","B">>,
                                <<"AX","B">>, <<"AX","A">> >>),
     angle_types |-> LibStore(<< <<"X","B","A">>, <<"A","B","A">>,
                                 <<"AX","B","A">>, <<"X","A","X">>,
                                 <<"X","B","X">>, <<"X","AX","X">> >>),
     dihedral_types |-> LibStore(<< <<"X","X","X","X">>, <<"X","B","B","X">>,
                                    <<"A","B","B","A">> >>),
     improper_types |-> LibStore(<< <<"B","X","X","X">>, <<"B","A","A","A">>,
                                    <<"A","X","X","X">> >>)]

LibPoor ==
    [given |-> TRUE,
     bond_types |-> LibStore(<< <<"A","B">>, <<"B","B">>, <<"AX","B">> >>),
     angle_types |-> LibStore(<< <<"A","B","B">>, <<"A","B","A">> >>),
     dihedral_types |-> LibStore(<< <<"A","B","B","A">> >>),
     improper_types |-> LibStore(<< <<"B","A","A","AX">> >>)]

LibEmpty ==
    [given |-> TRUE,
     bond_types |-> <<>>, angle_types |-> <<>>, dihedral_types |-> <<>>,
     improper_types |-> <<>>]

\* f=None: no Forcefield object is handed to the call
NoForcefield == [LibEmpty EXCEPT !.given = FALSE]

Libs == {LibRich, LibPoor, NoForcefield}

(* --------------------------- initial systems --------------------------- *)
RECURSIVE DedupNames(_, _, _)
DedupNames(acc, names, improper) ==
    IF names = <<>> THEN acc
    ELSE IF \E i \in DOMAIN acc : NameMatch(acc[i], Head(names), FALSE, improper)
         THEN DedupNames(acc, Tail(names), improper)
         ELSE DedupNames(Append(acc, Head(names)), Tail(names), improper)

NativeStore(names, improper) ==
    LET u == DedupNames(<<>>, names, improper)
    IN  [i \in DOMAIN u |-> [tag |-> i, id |-> i, name |-> u[i], src |-> 0]]

NativeRef(store, q, improper) ==
    OwnRef(ContainerGet(store, q, FALSE, improper)[1])

Dimers ==
    [n |-> 4, ptype |-> <<"A", "B", "B", "A">>, mol |-> <<1, 1, 2, 2>>,
     bonds |-> << <<1, 2>>, <<3, 4>> >>, angles |-> <<>>, dihedrals |-> <<>>,
     impropers |-> <<>>]

TrimerAndAtom ==
    [n |-> 4, ptype |-> <<"A", "B", "A", "AX">>, mol |-> <<1, 1, 1, 2>>,
     bonds |-> << <<1, 2>>, <<2, 3>> >>, angles |-> << <<1, 2, 3>> >>,
     dihedrals |-> <<>>, impropers |-> <<>>]

Star ==
    [n |-> 4, ptype |-> <<"B", "A", "A", "A">>, mol |-> <<1, 1, 1, 1>>,
     bonds |-> << <<1, 2>>, <<1, 3>>, <<1, 4>> >>,
     angles |-> << <<2, 1, 3>>, <<2, 1, 4>>, <<3, 1, 4>> >>,
     dihedrals |-> <<>>, impropers |-> << <<1, 2, 3, 4>> >>]

Chain ==
    [n |-> 4, ptype |-> <<"A", "B", "B", "A">>, mol |-> <<1, 1, 1, 1>>,
     bonds |-> << <<1, 2>>, <<2, 3>>, <<3, 4>> >>,
     angles |-> << <<1, 2, 3>>, <<2, 3, 4>> >>,
     dihedrals |-> << <<1, 2, 3, 4>> >>, impropers |-> <<>>]

Configs == {Dimers, TrimerAndAtom, Star, Chain}

\* systems that hold bonds but no angle, dihedral or improper yet
BareChain ==
    [n |-> 4, ptype |-> <<"AX", "B", "A", "B">>, mol |-> <<1, 1, 1, 1>>,
     bonds |-> << <<1, 2>>, <<2, 3>>, <<3, 4>> >>, angles |-> <<>>,
     dihedrals |-> <<>>, impropers |-> <<>>]

BareStar == [Star EXCEPT !.angles = <<>>, !.impropers = <<>>]

BareConfigs == {TrimerAndAtom, BareChain, BareStar}

\* three molecules: two dimers and a single atom
Fragments ==
    [n |-> 5, ptype |-> <<"A", "B", "A", "B", "A">>, mol |-> <<1, 1, 2, 3, 3>>,
     bonds |-> << <<1, 2>>, <<4, 5>> >>, angles |-> <<>>, dihedrals |-> <<>>,
     impropers |-> <<>>]

BondConfigs == {Fragments, TrimerAndAtom, Star, Chain}

FreshType == "A"

NamesOf(g, terms) == [i \in DOMAIN terms |->
                        [j \in DOMAIN terms[i] |-> g.ptype[terms[i][j]]]]

\* the System a data file holding g yields (read_lammps, objectify)
SystemOf(g, cls) ==
    LET pts == NativeStore([i \in 1..g.n |-> <<g.ptype[i]>>], TRUE)
        bts == NativeStore(NamesOf(g, g.bonds), FALSE)
        ats == NativeStore(NamesOf(g, g.angles), FALSE)
        dts == NativeStore(NamesOf(g, g.dihedrals), FALSE)
        its == NativeStore(NamesOf(g, g.impropers), TRUE)
        mids == {g.mol[i] : i \in 1..g.n}
    IN  [particles |-> [i \in 1..g.n |-> [tag |-> i, id |-> i]],
         particle_types |-> pts,
         bonds |-> [i \in DOMAIN g.bonds |->
                      [tag |-> i,
                       type |-> NativeRef(bts, NamesOf(g, g.bonds)[i], FALSE),
                       a |-> g.bonds[i][1], b |-> g.bonds[i][2]]],
         bond_types |-> bts,
         angles |-> [i \in DOMAIN g.angles |->
                      [tag |-> i,
                       type |-> NativeRef(ats, NamesOf(g, g.angles)[i], FALSE),
                       a |-> g.angles[i][1], b |-> g.angles[i][2],
                       c |-> g.angles[i][3]]],
         angle_types |-> ats,
         dihedrals |-> [i \in DOMAIN g.dihedrals |->
                      [tag |-> i,
                       type |-> NativeRef(dts, NamesOf(g, g.dihedrals)[i], FALSE),
                       a |-> g.dihedrals[i][1], b |-> g.dihedrals[i][2],
                       c |-> g.dihedrals[i][3], d |-> g.dihedrals[i][4]]],
         dihedral_types |-> dts,
         impropers |-> [i \in DOMAIN g.impropers |->
                      [tag |-> i,
                       type |-> NativeRef(its, NamesOf(g, g.impropers)[i], TRUE),
                       a |-> g.impropers[i][1], b |-> g.impropers[i][2],
                       c |-> g.impropers[i][3], d |-> g.impropers[i][4]]],
         improper_types |-> its,
         molecules |-> [i \in 1..Cardinality(mids) |-> [tag |-> i, id |-> i]],
         mtag |-> [m \in PIDS |-> IF m \in mids THEN m ELSE 0],
         mparts |-> [m \in PIDS |->
                       SelectSeq([i \in 1..g.n |-> i], LAMBDA p : g.mol[p] = m)],
         pmol |-> [p \in PIDS |-> IF p <= g.n THEN g.mol[p] ELSE 0],
         ptype |-> [p \in PIDS |-> IF p <= g.n THEN g.ptype[p] ELSE FreshType],
         bonded_to |-> [p \in PIDS |-> [has |-> FALSE, to |-> <<>>]],
         pbonds |-> [p \in PIDS |-> [has |-> FALSE, of |-> <<>>]],
         ff_class |-> cls,
         tid |-> SetMax({Len(pts), Len(bts), Len(ats), Len(dts), Len(its)})]

Classes == {"1", "2"}

NoCall == Call("init", 0, 0, FALSE)

\* a style attribute that is None
NoStyle == ""

Styles(p, b, a, d, i) ==
    [pair |-> p, bond |-> b, angle |-> a, dihedral |-> d, improper |-> i]

NoData == [st |-> "none", lines |-> <<>>]

NotLoaded == [st |-> "none"]

\* a box and the particles in it
Box(xlo, xhi, ylo, yhi, zlo, zhi) ==
    [xlo |-> xlo, xhi |-> xhi, ylo |-> ylo, yhi |-> yhi, zlo |-> zlo, zhi |-> zhi]

Point(x, y, z) == [x |-> x, y |-> y, z |-> z]

\* every particle at the low corner of the box
AtCorner(box) ==
    /\ dim = box
    /\ coords = [p \in PIDS |-> Point(box.xlo, box.ylo, box.zlo)]
    /\ was = coords
    /\ returned = "None"

\* the program starts with the system S, nothing written or read yet
StartsAs(S) ==
    /\ particles = S.particles /\ particle_types = S.particle_types
    /\ bonds = S.bonds /\ bond_types = S.bond_types
    /\ angles = S.angles /\ angle_types = S.angle_types
    /\ dihedrals = S.dihedrals /\ dihedral_types = S.dihedral_types
    /\ impropers = S.impropers /\ improper_types = S.improper_types
    /\ molecules = S.molecules /\ mtag = S.mtag /\ mparts = S.mparts
    /\ pmol = S.pmol /\ ptype = S.ptype /\ bonded_to = S.bonded_to
    /\ pbonds = S.pbonds
    /\ ff_class = S.ff_class /\ tid = S.tid
    /\ pre = S
    /\ last = NoCall
    /\ nrem = 0
    /\ nadd = 0
    /\ data = NoData
    /\ loaded = NotLoaded

InitWith(gs, cs, ls) ==
    \E g \in gs, cls \in cs, l \in ls :
       /\ StartsAs(SystemOf(g, cls))
       /\ lib = l
       /\ style = Styles(NoStyle, NoStyle, NoStyle, NoStyle, NoStyle)
       /\ write_coeffs = TRUE
       /\ AtCorner(Box(0, 10, 0, 10, 0, 10))

(* ------------------- removal and tag maintenance ----------------------- *)
StoreOf(S, st) == S[st]

\* ItemContainer.remove(tag, update=upd) on one of the System's stores
RemoveFrom(S, st, t, upd) == [S EXCEPT ![st] = ContainerRemove(S[st], t, upd)]

RECURSIVE ReAddAll(_, _)
ReAddAll(c, items) ==
    IF items = <<>> THEN c
    ELSE ReAddAll(ContainerAdd(c, [Head(items) EXCEPT !.tag = 0]), Tail(items))

RECURSIVE ReAddAllKeepingTags(_, _)
ReAddAllKeepingTags(c, items) ==
    IF items = <<>> THEN c
    ELSE ReAddAllKeepingTags(ContainerAdd(c, Head(items)), Tail(items))

RetagKeepingTags(c) == ReAddAllKeepingTags(ContainerRemoveAll(c), ContainerGetAll(c))

\* one stanza of update_tags: get('all'), remove('all'), del tag, add
Retag(c) == ReAddAll(ContainerRemoveAll(c), ContainerGetAll(c))

update_tags(S) ==
    [S EXCEPT !.particles = Retag(S.particles),
              !.particle_types = Retag(S.particle_types),
              !.bonds = Retag(S.bonds),
              !.bond_types = Retag(S.bond_types),
              !.angles = Retag(S.angles),
              !.angle_types = Retag(S.angle_types),
              !.dihedrals = Retag(S.dihedrals),
              !.dihedral_types = Retag(S.dihedral_types),
              !.impropers = Retag(S.impropers),
              !.improper_types = Retag(S.improper_types)]

SpareBond(b, live) == b.a \notin live \/ b.b \notin live

SpareAngleMissingC(a, live) == a.a \notin live \/ a.b \notin live

SpareAngle(a, live) == a.a \notin live \/ a.b \notin live \/ a.c \notin live

SpareDihedral(d, live) ==
    d.a \notin live \/ d.b \notin live \/ d.c \notin live \/ d.d \notin live

SpareImproper(i, live) ==
    i.a \notin live \/ i.b \notin live \/ i.c \notin live \/ i.d \notin live

Spare(kind, x, live) ==
    CASE kind = "bonds" -> SpareBond(x, live)
      [] kind = "angles" -> SpareAngle(x, live)
      [] kind = "dihedrals" -> SpareDihedral(x, live)
      [] kind = "impropers" -> SpareImproper(x, live)

\* for x in store: if spare: store.remove(x.tag, update=False)
RECURSIVE PruneLoop(_, _, _, _)
PruneLoop(c, items, kind, live) ==
    IF items = <<>> THEN c
    ELSE PruneLoop(IF Spare(kind, Head(items), live)
                   THEN ContainerRemove(c, Head(items).tag, FALSE) ELSE c,
                   Tail(items), kind, live)

remove_spare_bonding(S, upd) ==
    LET live == ParticleIds(S)
        T == [S EXCEPT !.bonds = PruneLoop(S.bonds, S.bonds, "bonds", live),
                       !.angles = PruneLoop(S.angles, S.angles, "angles", live),
                       !.dihedrals = PruneLoop(S.dihedrals, S.dihedrals,
                                               "dihedrals", live),
                       !.impropers = PruneLoop(S.impropers, S.impropers,
                                               "impropers", live)]
    IN  IF upd THEN update_tags(T) ELSE T

Remove(st, t, upd) ==
    /\ nrem < MaxRemovals
    /\ HasTag(Sys[st], t)
    /\ SetSys(RemoveFrom(Sys, st, t, upd))
    /\ last' = Call(st, t, 0, upd)
    /\ pre' = Snapshot
    /\ nrem' = nrem + 1
    /\ UNCHANGED <<lib, nadd, codec, geometry>>

RemoveSpareBonding(upd) ==
    /\ SetSys(remove_spare_bonding(Sys, upd))
    /\ last' = Call("remove_spare_bonding", 0, 0, upd)
    /\ pre' = Snapshot
    /\ UNCHANGED <<lib, nrem, nadd, codec, geometry>>

UpdateTags ==
    /\ SetSys(update_tags(Sys))
    /\ last' = Call("update_tags", 0, 0, FALSE)
    /\ pre' = Snapshot
    /\ UNCHANGED <<lib, nrem, nadd, codec, geometry>>

InitTags == InitWith(Configs, Classes, {LibEmpty})

NextTags ==
    \/ \E st \in StoreNames, t \in 1..MaxP, upd \in BOOLEAN : Remove(st, t, upd)
    \/ \E upd \in BOOLEAN : RemoveSpareBonding(upd)
    \/ UpdateTags

SpecTags == InitTags /\ [][NextTags]_vars

(* ----------------------------- type resolver --------------------------- *)
\* a.type.eq_<category> or a.type.name
EqName(cat, t) == IF cat = "dihedral" /\ t = "AX" THEN "A" ELSE t

QueryName(S, cat, ps) == [i \in DOMAIN ps |-> EqName(cat, S.ptype[ps[i]])]

\* truth value of an ItemContainer held in an attribute (None and the empty
\* container are both false)
Truthy(bt) == bt.has /\ Len(bt.to) > 0

BondedAdd(bt, p) == IF \E i \in DOMAIN bt.to : bt.to[i] = p THEN bt
                    ELSE [bt EXCEPT !.to = Append(bt.to, p)]

RECURSIVE BondingLoop(_, _)
BondingLoop(B, bs) ==
    IF bs = <<>> THEN B
    ELSE BondingLoop(
            [B EXCEPT ![Head(bs).a] = BondedAdd(B[Head(bs).a], Head(bs).b),
                      ![Head(bs).b] = BondedAdd(B[Head(bs).b], Head(bs).a)],
            Tail(bs))

\* b.a.bonds.add(b), b.b.bonds.add(b) for every b of s.bonds
BondsOf(S, p) ==
    [i \in DOMAIN SelectSeq(S.bonds, LAMBDA b : p \in {b.a, b.b}) |->
        SelectSeq(S.bonds, LAMBDA b : p \in {b.a, b.b})[i].tag]

add_particle_bonding(S) ==
    [S EXCEPT !.bonded_to =
        BondingLoop([p \in PIDS |-> IF p \in ParticleIds(S)
                                    THEN [has |-> TRUE, to |-> <<>>]
                                    ELSE S.bonded_to[p]],
                    S.bonds),
              !.pbonds =
        [p \in PIDS |-> IF p \in ParticleIds(S)
                        THEN [has |-> TRUE, of |-> BondsOf(S, p)]
                        ELSE [S.pbonds[p] EXCEPT !.of =
                                @ \o SelectSeq(BondsOf(S, p),
                                               LAMBDA t : t \notin Range(@))]]]

\* store.add(t.copy()) of a library type: a new object of the system
ImportType(S, st, t) ==
    [S EXCEPT ![st] = ContainerAdd(S[st], TypeCopy(t, S.tid + 1, t.src)),
              !.tid = S.tid + 1]

AddTerm(S, st, item) == [S EXCEPT ![st] = ContainerAdd(S[st], item)]

\* sorted(candidates, key=lambda x: x.name.count('X')): a stable sort
SortByCountX(cands) ==
    Flatten([k \in 1..(SetMax({NameCountX(cands[i].name) : i \in DOMAIN cands}) + 1)
               |-> SelectSeq(cands, LAMBDA x : NameCountX(x.name) = k - 1)])

Candidate(home, t) == [home |-> home, id |-> t.id, name |-> t.name, src |-> t.src]

CandidatesOf(own, ext) ==
    [i \in DOMAIN own |-> Candidate("sys", own[i])]
    \o [i \in DOMAIN ext |-> Candidate("lib", ext[i])]

\* the candidates add_angle, add_dihedral and add_improper rank: the
\* system's own matches first, then the library's
Candidates(S, f, st, q, improper) ==
    CandidatesOf(ContainerGet(S[st], q, TRUE, improper),
                 ContainerGet(f[st], q, TRUE, improper))

\* the outcome of a type lookup: the system after it and the type found,
\* NoRef when there is none
Resolved(S, ref) == [sys |-> S, type |-> ref]

TypeFound(S, got) ==
    IF got = <<>> THEN Resolved(S, NoRef) ELSE Resolved(S, OwnRef(got[1]))

ImportAlways(S, st, t, held) ==
    Resolved(ImportType(S, st, t), TypeRef("sys", S.tid + 1))

\* the winner t is copied into the store unless the store holds its name
ImportUnlessHeld(S, st, t, held) ==
    IF held = <<>>
    THEN Resolved(ImportType(S, st, t), TypeRef("sys", S.tid + 1))
    ELSE Resolved(S, OwnRef(held[1]))

ResolveFrom(S, f, st, improper, exact, ranked) ==
    IF exact # <<>> THEN Resolved(S, OwnRef(exact[1]))
    ELSE IF ~f.given \/ ranked = <<>> THEN Resolved(S, NoRef)
    ELSE ImportUnlessHeld(S, st, ranked[1],
                          ContainerGet(S[st], ranked[1].name, FALSE, improper))

\* the type lookup shared by add_angle, add_dihedral and add_improper
Resolve(S, f, st, q, improper) ==
    ResolveFrom(S, f, st, improper, ContainerGet(S[st], q, FALSE, improper),
                SortByCountX(Candidates(S, f, st, q, improper)))

ImportFirst(S, st, ext) == IF ext = <<>> THEN S ELSE ImportType(S, st, ext[1])

Reread(S, q) == TypeFound(S, ContainerGet(S.bond_types, q, TRUE, FALSE))

BondTypeFrom(S, f, q, own) ==
    IF own # <<>> \/ ~f.given THEN TypeFound(S, own)
    ELSE Reread(ImportFirst(S, "bond_types",
                            ContainerGet(f.bond_types, q, TRUE, FALSE)), q)

\* the lookup of add_bond: the first match, wildcards allowed, no ranking
ResolveBond(S, f, q) ==
    BondTypeFrom(S, f, q, ContainerGet(S.bond_types, q, TRUE, FALSE))

(* -------------------------- bonded-term synthesizer --------------------- *)
\* the term is added with the type found, or not at all
AddResolved(r, st, item) ==
    IF r.type = NoRef THEN r.sys
    ELSE AddTerm(r.sys, st, [item EXCEPT !.type = r.type])

\* add_particle_bonding() when a or b has no bonded_to yet
Indexed(S, a, b) ==
    IF ~S.bonded_to[a].has \/ ~S.bonded_to[b].has
    THEN add_particle_bonding(S) ELSE S

\* if a.bonded_to and b not in a.bonded_to: a.bonded_to.add(b), and for b
Bonded(S, a, b) ==
    [S EXCEPT !.bonded_to =
        [S.bonded_to EXCEPT
            ![a] = IF Truthy(S.bonded_to[a]) THEN BondedAdd(S.bonded_to[a], b)
                   ELSE S.bonded_to[a],
            ![b] = IF Truthy(S.bonded_to[b]) THEN BondedAdd(S.bonded_to[b], a)
                   ELSE S.bonded_to[b]]]

BondResolved(r, a, b) ==
    IF r.type = NoRef THEN r.sys
    ELSE Bonded(Indexed(AddTerm(r.sys, "bonds",
                                [tag |-> 0, type |-> r.type, a |-> a, b |-> b]),
                        a, b), a, b)

add_bond(S, a, b, f) ==
    IF a = b THEN S
    ELSE BondResolved(ResolveBond(S, f, QueryName(S, "bond", <<a, b>>)), a, b)

add_angle(S, a, b, c, f) ==
    IF a = c THEN S
    ELSE AddResolved(
            Resolve(S, f, "angle_types", QueryName(S, "angle", <<a, b, c>>), FALSE),
            "angles", [tag |-> 0, type |-> NoRef, a |-> a, b |-> b, c |-> c])

add_dihedral(S, a, b, c, d, f) ==
    IF a = c \/ b = d THEN S
    ELSE AddResolved(
            Resolve(S, f, "dihedral_types",
                    QueryName(S, "dihedral", <<a, b, c, d>>), FALSE),
            "dihedrals",
            [tag |-> 0, type |-> NoRef, a |-> a, b |-> b, c |-> c, d |-> d])

add_improper(S, a, b, c, d, f) ==
    IF a = b \/ a = c \/ a = d THEN S
    ELSE AddResolved(
            Resolve(S, f, "improper_types",
                    QueryName(S, "improper", <<a, b, c, d>>), TRUE),
            "impropers",
            [tag |-> 0, type |-> NoRef, a |-> a, b |-> b, c |-> c, d |-> d])

AngleCall(a, b, c) == [k |-> "angle", a |-> a, b |-> b, c |-> c, d |-> 0]

DihedralCall(a, b, c, d) == [k |-> "dihedral", a |-> a, b |-> b, c |-> c, d |-> d]

ImproperCall(a, b, c, d) == [k |-> "improper", a |-> a, b |-> b, c |-> c, d |-> d]

UniqueAlways(S, x) == TRUE

\* the test that precedes add_improper in make_new_bonds: no improper
\* centred on a has the neighbour set {b, c, d}
Unique(S, x) ==
    ~\E i \in DOMAIN S.impropers :
        /\ S.impropers[i].a = x.a
        /\ {S.impropers[i].b, S.impropers[i].c, S.impropers[i].d} = {x.b, x.c, x.d}

ApplyCall(S, x, f) ==
    CASE x.k = "angle" -> add_angle(S, x.a, x.b, x.c, f)
      [] x.k = "dihedral" -> add_dihedral(S, x.a, x.b, x.c, x.d, f)
      [] x.k = "improper" ->
           IF Unique(S, x) THEN add_improper(S, x.a, x.b, x.c, x.d, f) ELSE S

\* the calls are made one after the other; the one that finds no type
\* stops the rest
RECURSIVE UntilSkipped(_, _, _, _)
UntilSkipped(S, T, xs, f) ==
    IF xs = <<>> \/ T = S THEN T
    ELSE UntilSkipped(T, ApplyCall(T, Head(xs), f), Tail(xs), f)

ApplyUntilSkipped(S, xs, f) ==
    IF xs = <<>> THEN S
    ELSE UntilSkipped(S, ApplyCall(S, Head(xs), f), Tail(xs), f)

\* the calls are made one after the other: each call acts on the system the
\* call before it left
RECURSIVE ApplyCalls(_, _, _)
ApplyCalls(S, xs, f) ==
    IF xs = <<>> THEN S
    ELSE CHOOSE R \in {ApplyCalls(T, Tail(xs), f) :
                          T \in {ApplyCall(S, Head(xs), f)}} : TRUE

\* itertools.permutations(seq, 3), in the order it yields them
Permutations3(seq) ==
    Flatten([i \in DOMAIN seq |-> Flatten([j \in DOMAIN seq |->
        Flatten([k \in DOMAIN seq |->
            IF i # j /\ i # k /\ j # k THEN << <<seq[i], seq[j], seq[k]>> >>
            ELSE <<>>])])])

\* the dihedrals of the inner loop over p.bonded_to, p a neighbour of p1
InnerFirst(nb, p, p1, p2) ==
    Flatten([j \in DOMAIN nb |->
        IF nb[j] # p1 /\ p # p2 THEN <<DihedralCall(nb[j], p, p1, p2)>> ELSE <<>>])

\* the loop over p1.bonded_to of make_new_bonds
FirstLoop(S, p1, p2) ==
    Flatten([i \in DOMAIN S.bonded_to[p1].to |->
        (IF S.bonded_to[p1].to[i] # p2
         THEN <<AngleCall(S.bonded_to[p1].to[i], p1, p2)>> ELSE <<>>)
        \o InnerFirst(S.bonded_to[S.bonded_to[p1].to[i]].to,
                      S.bonded_to[p1].to[i], p1, p2)])

InnerSecond(nb, p, p1, p2) ==
    Flatten([j \in DOMAIN nb |->
        IF nb[j] # p2 /\ p # p1 THEN <<DihedralCall(p1, p2, p, nb[j])>> ELSE <<>>])

\* the loop over p2.bonded_to
SecondLoop(S, p1, p2) ==
    Flatten([i \in DOMAIN S.bonded_to[p2].to |->
        (IF S.bonded_to[p2].to[i] # p1
         THEN <<AngleCall(p1, p2, S.bonded_to[p2].to[i])>> ELSE <<>>)
        \o InnerSecond(S.bonded_to[S.bonded_to[p2].to[i]].to,
                       S.bonded_to[p2].to[i], p1, p2)])

CrossOf(n1, n2, p1, p2) ==
    Flatten([i \in DOMAIN n1 |-> Flatten([j \in DOMAIN n2 |->
        IF n1[i] # p2 /\ n2[j] # p1
        THEN <<DihedralCall(n1[i], p1, p2, n2[j])>> ELSE <<>>])])

CrossLoopLeftOut(S, p1, p2) == <<>>

\* the double loop that makes the dihedrals across the new bond
CrossLoop(S, p1, p2) == CrossOf(S.bonded_to[p1].to, S.bonded_to[p2].to, p1, p2)

ImpropersOf(p, perms) ==
    [i \in DOMAIN perms |-> ImproperCall(p, perms[i][1], perms[i][2], perms[i][3])]

ImproperLoop(S, p) == ImpropersOf(p, Permutations3(S.bonded_to[p].to))

\* every add_ call make_new_bonds makes after add_bond, in the order made
DerivedCalls(S, p1, p2) ==
    FirstLoop(S, p1, p2) \o SecondLoop(S, p1, p2) \o CrossLoop(S, p1, p2)
    \o (IF S.ff_class = "2"
        THEN ImproperLoop(S, p1) \o ImproperLoop(S, p2) ELSE <<>>)

WithDerived(S, p1, p2, f) == ApplyCalls(S, DerivedCalls(S, p1, p2), f)

MoleculeTags(S, store) ==
    [m \in PIDS |-> IF \E i \in DOMAIN store : store[i].id = m
                    THEN (CHOOSE i \in DOMAIN store : store[i].id = m)
                    ELSE S.mtag[m]]

\* the particles of old.particles go to new and old leaves the store
Absorb(S, old, new) ==
    [S EXCEPT
        !.pmol = [p \in PIDS |-> IF p \in Range(S.mparts[old]) THEN new
                                 ELSE S.pmol[p]],
        !.molecules = ContainerRemove(S.molecules, S.mtag[old], TRUE),
        !.mtag = MoleculeTags(S, ContainerRemove(S.molecules, S.mtag[old], TRUE))]

Join(S, m1, m2) ==
    IF m1 = m2 THEN S
    ELSE IF Count(S.mparts[m1]) < Count(S.mparts[m2]) THEN Absorb(S, m1, m2)
    ELSE Absorb(S, m2, m1)

\* the molecule of p1 and the molecule of p2 become one
MergeMolecules(S, p1, p2) == Join(S, S.pmol[p1], S.pmol[p2])

make_new_bonds(S, p1, p2, f) ==
    WithDerived(add_bond(MergeMolecules(add_particle_bonding(S), p1, p2),
                         p1, p2, f),
                p1, p2, f)

add_particle(S, p) ==
    [S EXCEPT !.particles = ContainerAdd(S.particles, [tag |-> 0, id |-> p])]

BondedToLoopAnglesOnly(S, p, p0) ==
    Flatten([i \in DOMAIN S.bonded_to[p0].to |->
        IF S.bonded_to[p0].to[i] = p THEN <<>>
        ELSE <<AngleCall(S.bonded_to[p0].to[i], p0, p)>>])

InnerBondedTo(nb, p_, p0, p) ==
    Flatten([j \in DOMAIN nb |->
        IF nb[j] # p0 THEN <<DihedralCall(nb[j], p_, p0, p)>> ELSE <<>>])

\* the loop over p0.bonded_to of add_particle_bonded_to
BondedToLoop(S, p, p0) ==
    Flatten([i \in DOMAIN S.bonded_to[p0].to |->
        IF S.bonded_to[p0].to[i] = p THEN <<>>
        ELSE <<AngleCall(S.bonded_to[p0].to[i], p0, p)>>
             \o InnerBondedTo(S.bonded_to[S.bonded_to[p0].to[i]].to,
                              S.bonded_to[p0].to[i], p0, p)])

\* if p.molecule is None: p.molecule = p0.molecule
Adopt(S, p, p0) ==
    IF S.pmol[p] = 0 THEN [S EXCEPT !.pmol[p] = S.pmol[p0]] ELSE S

\* if not p0.bonded_to: self.add_particle_bonding()
Rebonded(S, p0) ==
    IF ~Truthy(S.bonded_to[p0]) THEN add_particle_bonding(S) ELSE S

WithBondedTo(S, p, p0, f) == ApplyCalls(S, BondedToLoop(S, p, p0), f)

add_particle_bonded_to(S, p, p0, f) ==
    WithBondedTo(Rebonded(add_bond(add_particle(Adopt(S, p, p0), p), p0, p, f),
                          p0),
                 p, p0, f)

(* ------------------------------ operations ------------------------------ *)
Fresh(S) == PIDS \ ParticleIds(S)

MakeNewBonds(p1, p2) ==
    /\ nadd < MaxAdds
    /\ p1 \in ParticleIds(Sys) /\ p2 \in ParticleIds(Sys) /\ p1 # p2
    /\ SetSys(make_new_bonds(Sys, p1, p2, lib))
    /\ last' = Call("make_new_bonds", p1, p2, FALSE)
    /\ pre' = Snapshot
    /\ nadd' = nadd + 1
    /\ UNCHANGED <<lib, nrem, codec, geometry>>

AddParticleBondedTo(p, p0) ==
    /\ nadd < MaxAdds
    /\ Fresh(Sys) # {} /\ p = CHOOSE x \in Fresh(Sys) : \A y \in Fresh(Sys) : x <= y
    /\ p0 \in ParticleIds(Sys)
    /\ SetSys(add_particle_bonded_to(Sys, p, p0, lib))
    /\ last' = Call("add_particle_bonded_to", p, p0, FALSE)
    /\ pre' = Snapshot
    /\ nadd' = nadd + 1
    /\ UNCHANGED <<lib, nrem, codec, geometry>>

InitBond == InitWith(BondConfigs, Classes, Libs)

NextBond ==
    \/ \E p1 \in ParticleIds(Sys), p2 \in ParticleIds(Sys) : MakeNewBonds(p1, p2)
    \/ \E p \in Fresh(Sys), p0 \in ParticleIds(Sys) : AddParticleBondedTo(p, p0)

SpecBond == InitBond /\ [][NextBond]_vars

\* the particles bonded to p according to the bonds store
Nbrs(S, p) ==
    {S.bonds[i].b : i \in {j \in DOMAIN S.bonds : S.bonds[j].a = p}}
    \cup {S.bonds[i].a : i \in {j \in DOMAIN S.bonds : S.bonds[j].b = p}}

AddBond(a, b) ==
    /\ nadd < MaxAdds
    /\ a \in ParticleIds(Sys) /\ b \in ParticleIds(Sys)
    /\ SetSys(add_bond(Sys, a, b, lib))
    /\ last' = CallOn("add_bond", <<a, b>>)
    /\ pre' = Snapshot
    /\ nadd' = nadd + 1
    /\ UNCHANGED <<lib, nrem, codec, geometry>>

AddAngle(a, b, c) ==
    /\ nadd < MaxAdds
    /\ b \in ParticleIds(Sys) /\ a \in Nbrs(Sys, b) /\ c \in Nbrs(Sys, b)
    /\ SetSys(add_angle(Sys, a, b, c, lib))
    /\ last' = CallOn("add_angle", <<a, b, c>>)
    /\ pre' = Snapshot
    /\ nadd' = nadd + 1
    /\ UNCHANGED <<lib, nrem, codec, geometry>>

AddDihedral(a, b, c, d) ==
    /\ nadd < MaxAdds
    /\ b \in ParticleIds(Sys) /\ c \in Nbrs(Sys, b)
    /\ a \in Nbrs(Sys, b) /\ d \in Nbrs(Sys, c)
    /\ SetSys(add_dihedral(Sys, a, b, c, d, lib))
    /\ last' = CallOn("add_dihedral", <<a, b, c, d>>)
    /\ pre' = Snapshot
    /\ nadd' = nadd + 1
    /\ UNCHANGED <<lib, nrem, codec, geometry>>

AddImproper(a, b, c, d) ==
    /\ nadd < MaxAdds
    /\ a \in ParticleIds(Sys)
    /\ {b, c, d} \subseteq Nbrs(Sys, a) \cup {a}
    /\ b # c /\ b # d /\ c # d
    /\ SetSys(add_improper(Sys, a, b, c, d, lib))
    /\ last' = CallOn("add_improper", <<a, b, c, d>>)
    /\ pre' = Snapshot
    /\ nadd' = nadd + 1
    /\ UNCHANGED <<lib, nrem, codec, geometry>>

InitResolve == InitWith(BareConfigs, {"1"}, Libs)

NextResolve ==
    \/ \E a \in ParticleIds(Sys), b \in ParticleIds(Sys) : AddBond(a, b)
    \/ \E b \in ParticleIds(Sys) :
          \E a \in Nbrs(Sys, b), c \in Nbrs(Sys, b) : AddAngle(a, b, c)
    \/ \E b \in ParticleIds(Sys) :
          \E c \in Nbrs(Sys, b) :
             \E a \in Nbrs(Sys, b), d \in Nbrs(Sys, c) : AddDihedral(a, b, c, d)
    \/ \E a \in ParticleIds(Sys) :
          \E b \in Nbrs(Sys, a) \cup {a}, c \in Nbrs(Sys, a) \cup {a},
             d \in Nbrs(Sys, a) \cup {a} : AddImproper(a, b, c, d)

SpecResolve == InitResolve /\ [][NextResolve]_vars

(* ------------------------------ data codec ----------------------------- *)
(* An attribute value is a Python value: None, an int, a float (counted in *)
(* units of 10^-7) or a list of these.  A data file is the sequence of its *)
(* lines, a line the sequence of its whitespace-separated tokens; a token  *)
(* is integer text, decimal text, or a word.                               *)
None == [k |-> "none", v |-> 0]

PyInt(n) == [k |-> "int", v |-> n]

PyFloat(t) == [k |-> "float", v |-> t]

PyList(xs) == [k |-> "list", v |-> xs]

IsNum(x) == x.k \in {"int", "float"}

Ticks(x) == IF x.k = "int" THEN x.v * 10000000 ELSE x.v

\* not x
Falsy(x) == x.k = "none" \/ (IsNum(x) /\ x.v = 0) \/ (x.k = "list" /\ x.v = <<>>)

Word(w) == [k |-> "word", v |-> w]

IntText(n) == [k |-> "int", v |-> n]

DecText(t) == [k |-> "dec", v |-> t]

\* the conversion raised an exception
Raised == [k |-> "raise", v |-> 0]

\* '{}'.format(x) and '%s' % x
Str(x) == CASE x.k = "none" -> Word("None")
            [] x.k = "int" -> IntText(x.v)
            [] x.k = "float" -> DecText(x.v)
            [] OTHER -> Word("[]")

\* '{:f}'.format(x): six decimals
FormatF(x) == IF IsNum(x) THEN DecText(((Ticks(x) + 5) \div 10) * 10) ELSE Raised

\* int(x)
Trunc(x) == IF x.k = "int" THEN x.v
            ELSE IF x.v >= 0 THEN x.v \div 10000000
            ELSE 0 - ((0 - x.v) \div 10000000)

\* '{:d}'.format(int(x))
FormatD(x) == IF IsNum(x) THEN IntText(Trunc(x)) ELSE Raised

\* '{:d}'.format(x)
FormatDStrict(x) == IF x.k = "int" THEN IntText(x.v) ELSE Raised

\* float(token)
ToFloat(tok) == CASE tok.k = "int" -> PyFloat(tok.v * 10000000)
                  [] tok.k = "dec" -> PyFloat(tok.v)
                  [] OTHER -> Raised

\* int(token)
ToInt(tok) == IF tok.k = "int" THEN PyInt(tok.v) ELSE Raised

\* style.startswith(prefix) on the style names in use
StartsWith(s, prefix) ==
    \/ s = prefix
    \/ prefix = "lj" /\ s = "lj/cut"
    \/ prefix = "harm" /\ s = "harmonic"

\* Item.__getattr__: an attribute that was never set is None
Attr(t, a) == IF a \in DOMAIN t.at THEN t.at[a] ELSE None

Updated(x, y) == [a \in (DOMAIN x) \cup (DOMAIN y) |->
                    IF a \in DOMAIN y THEN y[a] ELSE x[a]]

Min(a, b) == IF a < b THEN a ELSE b

Words(ws) == [i \in DOMAIN ws |-> Word(ws[i])]

Fields(t, names) == [i \in DOMAIN names |-> Str(Attr(t, names[i]))]

\* '{:4}\t ... \t# {}\n'.format(self.tag, ..., self.name)
TypeLine(t, toks) ==
    <<IntText(t.tag)>> \o toks \o <<Word("#"), [k |-> "name", v |-> t.name]>>

RaisingLine == <<Raised>>

ParticleType_write_lammps(t, s) ==
    IF StartsWith(s, "lj") THEN TypeLine(t, Fields(t, <<"epsilon", "sigma">>))
    ELSE IF StartsWith(s, "charmm")
    THEN IF ~Falsy(Attr(t, "epsilon_14")) /\ ~Falsy(Attr(t, "sigma_14"))
         THEN TypeLine(t, Fields(t, <<"epsilon", "sigma",
                                      "epsilon_14", "sigma_14">>))
         ELSE TypeLine(t, Fields(t, <<"epsilon", "sigma", "epsilon", "sigma">>))
    ELSE IF StartsWith(s, "class2")
    THEN TypeLine(t, Fields(t, <<"epsilon", "sigma">>))
    ELSE IF StartsWith(s, "mass") THEN TypeLine(t, Fields(t, <<"mass">>))
    ELSE IF StartsWith(s, "buck") THEN TypeLine(t, Fields(t, <<"a", "rho", "c">>))
    ELSE RaisingLine

BondType_write_lammps(t, s) ==
    IF StartsWith(s, "harm") THEN TypeLine(t, Fields(t, <<"k", "r0">>))
    ELSE IF StartsWith(s, "class2")
    THEN TypeLine(t, Fields(t, <<"r0", "k2", "k3", "k4">>))
    ELSE RaisingLine

AngleType_write_lammps(t, s, cross_term) ==
    IF StartsWith(s, "harm") THEN TypeLine(t, Fields(t, <<"k", "theta0">>))
    ELSE IF StartsWith(s, "class2")
    THEN CASE cross_term = "" ->
                TypeLine(t, Fields(t, <<"theta0", "k2", "k3", "k4">>))
           [] cross_term = "BondBond" ->
                TypeLine(t, Fields(t, <<"m", "r1", "r2">>))
           [] cross_term = "BondAngle" ->
                TypeLine(t, Fields(t, <<"n1", "n2", "r1", "r2">>))
    ELSE IF StartsWith(s, "charmm")
    THEN TypeLine(t, Fields(t, <<"k", "theta0", "k_ub", "r_ub">>))
    ELSE RaisingLine

\* for k, n, d in zip(self.k, self.n, self.d)
FourierTerms(k, n, d) ==
    IF k.k # "list" \/ n.k # "list" \/ d.k # "list" THEN RaisingLine
    ELSE Flatten([i \in 1..Min(Len(k.v), Min(Len(n.v), Len(d.v))) |->
                    <<Str(k.v[i]), FormatD(n.v[i]), Str(d.v[i])>>])

DihedralType_write_lammps(t, s, cross_term) ==
    IF StartsWith(s, "harm")
    THEN TypeLine(t, <<FormatF(Attr(t, "k")), FormatD(Attr(t, "d")),
                       FormatD(Attr(t, "n"))>>)
    ELSE IF StartsWith(s, "charmm")
    THEN TypeLine(t, <<FormatF(Attr(t, "k")), FormatD(Attr(t, "n")),
                       FormatD(Attr(t, "d")), FormatF(Attr(t, "w"))>>)
    ELSE IF StartsWith(s, "opls")
    THEN TypeLine(t, <<FormatF(Attr(t, "k1")), FormatF(Attr(t, "k2")),
                       FormatF(Attr(t, "k3")), FormatF(Attr(t, "k4"))>>)
    ELSE IF StartsWith(s, "fourier")
    THEN TypeLine(t, <<FormatDStrict(Attr(t, "m"))>>
                     \o FourierTerms(Attr(t, "k"), Attr(t, "n"), Attr(t, "d")))
    ELSE IF StartsWith(s, "class2")
    THEN CASE cross_term = "" ->
                TypeLine(t, Fields(t, <<"k1", "phi1", "k2", "phi2", "k3", "phi3">>))
           [] cross_term = "MiddleBond" ->
                TypeLine(t, Fields(t, <<"a1", "a2", "a3", "r2">>))
           [] cross_term = "EndBond" ->
                TypeLine(t, Fields(t, <<"b1", "b2", "b3", "c1", "c2", "c3",
                                        "r1", "r3">>))
           [] cross_term = "Angle" ->
                TypeLine(t, Fields(t, <<"d1", "d2", "d3", "e1", "e2", "e3",
                                        "theta1", "theta2">>))
           [] cross_term = "AngleAngle" ->
                TypeLine(t, Fields(t, <<"m", "theta1", "theta2">>))
           [] cross_term = "BondBond13" ->
                TypeLine(t, Fields(t, <<"n", "r1", "r3">>))
    ELSE RaisingLine

ImproperType_write_lammps(t, s, cross_term) ==
    IF StartsWith(s, "harmonic") THEN TypeLine(t, Fields(t, <<"k", "x0">>))
    ELSE IF StartsWith(s, "umbrella") THEN TypeLine(t, Fields(t, <<"k", "x0">>))
    ELSE IF StartsWith(s, "cvff") THEN TypeLine(t, Fields(t, <<"k", "d", "n">>))
    ELSE IF StartsWith(s, "class2")
    THEN CASE cross_term = "" -> TypeLine(t, Fields(t, <<"k", "x0">>))
           [] cross_term = "AngleAngle" ->
                TypeLine(t, Fields(t, <<"m1", "m2", "m3",
                                        "theta1", "theta2", "theta3">>))
    ELSE RaisingLine

\* if self.<a> is None: self.<a> = 0.0, for the attributes in names
Defaults(at, names) ==
    [a \in (DOMAIN at) \cup names |->
        IF a \in names /\ (a \notin DOMAIN at \/ at[a].k = "none")
        THEN PyFloat(0) ELSE at[a]]

WithDefaults(store, names) ==
    [i \in DOMAIN store |-> [store[i] EXCEPT !.at = Defaults(@, names)]]

\* the class-2 sections of a family are written
\* the cross terms of a class 2 system only
CrossTermsOfClass(S, s) == S.ff_class = "2"

CrossTerms(S, s) == S.ff_class = "2" \/ s = "class2"

\* the attributes write_lammps sets on the types while it writes them
Defaulted(S, st, wc) ==
    [S EXCEPT
        !.dihedral_types =
            IF wc /\ Count(S.dihedral_types) > 0 /\ CrossTerms(S, st.dihedral)
               /\ StartsWith(st.dihedral, "class2")
            THEN WithDefaults(@, {"n"}) ELSE @,
        !.improper_types =
            IF wc /\ Count(S.improper_types) > 0
               /\ StartsWith(st.improper, "class2")
            THEN WithDefaults(@, {"k", "x0"}) ELSE @]

CountLine(n, what) == <<IntText(n)>> \o Words(what)

\* a section: its keyword line, a blank line, its records, a blank line
Section(title, records) == <<Words(title), <<>>>> \o records \o << <<>> >>

SectionIf(cond, title, records) == IF cond THEN Section(title, records) ELSE <<>>

TypeCount(c, what) == IF Count(c) > 0 THEN <<CountLine(Count(c), what)>> ELSE <<>>

BoxLine(lo, hi) == <<DecText(0), DecText(100000000), Word(lo), Word(hi)>>

Preamble(S) ==
    << <<Word("name")>>, <<>>,
       CountLine(Count(S.particles), <<"atoms">>),
       CountLine(Count(S.bonds), <<"bonds">>),
       CountLine(Count(S.angles), <<"angles">>),
       CountLine(Count(S.dihedrals), <<"dihedrals">>),
       CountLine(Count(S.impropers), <<"impropers">>),
       <<>>,
       CountLine(Count(S.particle_types), <<"atom", "types">>) >>
    \o TypeCount(S.bond_types, <<"bond", "types">>)
    \o TypeCount(S.angle_types, <<"angle", "types">>)
    \o TypeCount(S.dihedral_types, <<"dihedral", "types">>)
    \o TypeCount(S.improper_types, <<"improper", "types">>)
    \o << <<>>, BoxLine("xlo", "xhi"), BoxLine("ylo", "yhi"),
          BoxLine("zlo", "zhi"), <<>> >>

PairLines(c, s) == [i \in DOMAIN c |-> ParticleType_write_lammps(c[i], s)]

BondLines(c, s) == [i \in DOMAIN c |-> BondType_write_lammps(c[i], s)]

AngleLines(c, s, x) == [i \in DOMAIN c |-> AngleType_write_lammps(c[i], s, x)]

DihedralLines(c, s, x) ==
    [i \in DOMAIN c |-> DihedralType_write_lammps(c[i], s, x)]

ImproperLines(c, s, x) ==
    [i \in DOMAIN c |-> ImproperType_write_lammps(c[i], s, x)]

AngleCoeffs(S, s, wc) ==
    SectionIf(wc /\ Count(S.angle_types) > 0, <<"Angle", "Coeffs">>,
              AngleLines(S.angle_types, s, ""))
    \o (IF wc /\ Count(S.angle_types) > 0 /\ CrossTerms(S, s)
        THEN Section(<<"BondBond", "Coeffs">>,
                     AngleLines(S.angle_types, s, "BondBond"))
             \o Section(<<"BondAngle", "Coeffs">>,
                        AngleLines(S.angle_types, s, "BondAngle"))
        ELSE <<>>)

DihedralCoeffs(S, s, wc) ==
    SectionIf(wc /\ Count(S.dihedral_types) > 0, <<"Dihedral", "Coeffs">>,
              DihedralLines(S.dihedral_types, s, ""))
    \o (IF wc /\ Count(S.dihedral_types) > 0 /\ CrossTerms(S, s)
        THEN Section(<<"MiddleBondTorsion", "Coeffs">>,
                     DihedralLines(S.dihedral_types, s, "MiddleBond"))
             \o Section(<<"EndBondTorsion", "Coeffs">>,
                        DihedralLines(S.dihedral_types, s, "EndBond"))
             \o Section(<<"AngleTorsion", "Coeffs">>,
                        DihedralLines(S.dihedral_types, s, "Angle"))
             \o Section(<<"AngleAngleTorsion", "Coeffs">>,
                        DihedralLines(S.dihedral_types, s, "AngleAngle"))
             \o Section(<<"BondBond13", "Coeffs">>,
                        DihedralLines(S.dihedral_types, s, "BondBond13"))
        ELSE <<>>)

ImproperCoeffs(S, s, wc) ==
    SectionIf(wc /\ Count(S.improper_types) > 0, <<"Improper", "Coeffs">>,
              ImproperLines(S.improper_types, s, ""))
    \o SectionIf(wc /\ Count(S.improper_types) > 0 /\ CrossTerms(S, s),
                 <<"AngleAngle", "Coeffs">>,
                 ImproperLines(S.improper_types, s, "AngleAngle"))

Coeffs(S, st, wc) ==
    SectionIf(Count(S.particle_types) > 0, <<"Masses">>,
              PairLines(S.particle_types, "mass"))
    \o SectionIf(wc /\ Count(S.particle_types) > 0, <<"Pair", "Coeffs">>,
                 PairLines(S.particle_types, st.pair))
    \o SectionIf(wc /\ Count(S.bond_types) > 0, <<"Bond", "Coeffs">>,
                 BondLines(S.bond_types, st.bond))
    \o AngleCoeffs(S, st.angle, wc)
    \o DihedralCoeffs(S, st.dihedral, wc)
    \o ImproperCoeffs(S, st.improper, wc)

\* the tag of the object a reference names, a raised exception when the
\* reference is None
TagText(c, matches(_)) ==
    IF \E i \in DOMAIN c : matches(c[i])
    THEN IntText(c[CHOOSE i \in DOMAIN c : matches(c[i])].tag)
    ELSE Raised

ParticleTag(S, p) == TagText(S.particles, LAMBDA x : x.id = p)

TypeTag(c, ref) == TagText(c, LAMBDA x : x.id = ref.id)

ParticleTypeTag(S, p) ==
    TagText(S.particle_types, LAMBDA x : x.name = <<S.ptype[p]>>)

\* p.molecule.tag, 1 when the particle has no molecule
MoleculeTag(S, p) == IF S.pmol[p] = 0 THEN IntText(1)
                     ELSE IntText(S.mtag[S.pmol[p]])

AtomLines(S) ==
    [i \in DOMAIN S.particles |->
        <<IntText(S.particles[i].tag), MoleculeTag(S, S.particles[i].id),
          ParticleTypeTag(S, S.particles[i].id), IntText(0),
          DecText(0), DecText(0), DecText(0)>>]

VelocityLines(S) ==
    [i \in DOMAIN S.particles |->
        <<IntText(S.particles[i].tag), DecText(0), DecText(0), DecText(0)>>]

BondRecords(S) ==
    [i \in DOMAIN S.bonds |->
        <<IntText(S.bonds[i].tag), TypeTag(S.bond_types, S.bonds[i].type),
          ParticleTag(S, S.bonds[i].a), ParticleTag(S, S.bonds[i].b)>>]

AngleRecords(S) ==
    [i \in DOMAIN S.angles |->
        <<IntText(S.angles[i].tag), TypeTag(S.angle_types, S.angles[i].type),
          ParticleTag(S, S.angles[i].a), ParticleTag(S, S.angles[i].b),
          ParticleTag(S, S.angles[i].c)>>]

DihedralRecords(S) ==
    [i \in DOMAIN S.dihedrals |->
        <<IntText(S.dihedrals[i].tag),
          TypeTag(S.dihedral_types, S.dihedrals[i].type),
          ParticleTag(S, S.dihedrals[i].a), ParticleTag(S, S.dihedrals[i].b),
          ParticleTag(S, S.dihedrals[i].c), ParticleTag(S, S.dihedrals[i].d)>>]

\* the first two atom columns change places for a class-2 system
ImproperRecords(S, st) ==
    [i \in DOMAIN S.impropers |->
        <<IntText(S.impropers[i].tag),
          TypeTag(S.improper_types, S.impropers[i].type)>>
        \o (IF S.ff_class = "2" \/ st.improper = "class2"
            THEN <<ParticleTag(S, S.impropers[i].b),
                   ParticleTag(S, S.impropers[i].a)>>
            ELSE <<ParticleTag(S, S.impropers[i].a),
                   ParticleTag(S, S.impropers[i].b)>>)
        \o <<ParticleTag(S, S.impropers[i].c), ParticleTag(S, S.impropers[i].d)>>]

Items(S, st) ==
    (IF Count(S.particles) > 0
     THEN Section(<<"Atoms">>, AtomLines(S))
          \o Section(<<"Velocities">>, VelocityLines(S))
     ELSE <<>>)
    \o SectionIf(Count(S.bonds) > 0, <<"Bonds">>, BondRecords(S))
    \o SectionIf(Count(S.angles) > 0, <<"Angles">>, AngleRecords(S))
    \o SectionIf(Count(S.dihedrals) > 0, <<"Dihedrals">>, DihedralRecords(S))
    \o SectionIf(Count(S.impropers) > 0, <<"Impropers">>, ImproperRecords(S, st))

Raises(lines) ==
    \E i \in DOMAIN lines : \E j \in DOMAIN lines[i] : lines[i][j].k = "raise"

Written(lines) == IF Raises(lines) THEN [st |-> "error", lines |-> <<>>]
                  ELSE [st |-> "ok", lines |-> lines]

\* write_lammps('string'): the text, or the exception raised
write_lammps(S, st, wc) ==
    Written(Preamble(S) \o Coeffs(Defaulted(S, st, wc), st, wc) \o Items(S, st))

(* the reader *)
IsWord(tok, w) == tok.k = "word" /\ tok.v = w

\* the position of the first '#' of a line, past its end when it has none
HashAt(line) ==
    IF \E i \in DOMAIN line : IsWord(line[i], "#")
    THEN CHOOSE i \in DOMAIN line :
            IsWord(line[i], "#") /\ \A j \in 1..(i - 1) : ~IsWord(line[j], "#")
    ELSE Len(line) + 1

\* line.split('#')[0].split()
Data(line) == SubSeq(line, 1, HashAt(line) - 1)

\* the name that follows the '#'
Comment(line) ==
    IF HashAt(line) < Len(line) THEN line[HashAt(line) + 1].v ELSE <<>>

\* len(line.split('#')[0].split()[1:])
NParam(line) == IF Data(line) = <<>> THEN 0 ELSE Len(Data(line)) - 1

Good(item) == [ok |-> TRUE, it |-> item]

Bad == [ok |-> FALSE, it |-> <<>>]

Conv(c, tok) == IF c = "int" THEN ToInt(tok) ELSE ToFloat(tok)

\* a field is <<attribute, conversion, column>>:
\* attribute = conversion(data[column])
Values(toks, fields) ==
    [i \in DOMAIN fields |->
        IF fields[i][3] + 1 > Len(toks) THEN Raised
        ELSE Conv(fields[i][2], toks[fields[i][3] + 1])]

AllGood(vals) == \A i \in DOMAIN vals : vals[i].k # "raise"

AttrsOf(fields, vals) ==
    [a \in {fields[i][1] : i \in DOMAIN fields} |->
        vals[CHOOSE i \in DOMAIN fields : fields[i][1] = a]]

Built(tag, name, fields, vals) ==
    IF tag.k = "raise" \/ ~AllGood(vals) THEN Bad
    ELSE Good([tag |-> tag.v, name |-> name, at |-> AttrsOf(fields, vals)])

\* cls(tag=int(data[0]), name=name, ...) once len(data) is the n expected
Construct(line, n, fields) ==
    IF Len(Data(line)) # n THEN Bad
    ELSE Built(ToInt(Data(line)[1]), Comment(line), fields,
               Values(Data(line), fields))

\* guess_style raised: the field count names no style
Cannot == "?"

ParticleType_guess_style(nparam) ==
    CASE nparam = 2 -> "lj" [] nparam = 3 -> "buck" [] nparam = 4 -> "charmm"
      [] OTHER -> Cannot

ParticleType_parse_lammps(line, s) ==
    IF s = "mass" THEN Construct(line, 2, << <<"mass", "float", 1>> >>)
    ELSE IF StartsWith(s, "lj") \/ StartsWith(s, "class2")
    THEN Construct(line, 3, << <<"epsilon", "float", 1>>, <<"sigma", "float", 2>> >>)
    ELSE IF StartsWith(s, "charmm")
    THEN IF Len(Data(line)) = 3
         THEN Construct(line, 3, << <<"epsilon", "float", 1>>,
                                    <<"sigma", "float", 2>>,
                                    <<"epsilon_14", "float", 1>>,
                                    <<"sigma_14", "float", 2>> >>)
         ELSE Construct(line, 5, << <<"epsilon", "float", 1>>,
                                    <<"sigma", "float", 2>>,
                                    <<"epsilon_14", "float", 3>>,
                                    <<"sigma_14", "float", 4>> >>)
    ELSE IF StartsWith(s, "buck")
    THEN Construct(line, 4, << <<"a", "float", 1>>, <<"rho", "float", 2>>,
                               <<"c", "float", 3>> >>)
    ELSE Bad

BondType_guess_style(nparam) ==
    CASE nparam = 2 -> "harmonic" [] nparam = 4 -> "class2" [] OTHER -> Cannot

BondType_parse_lammps(line, s) ==
    IF StartsWith(s, "harm")
    THEN Construct(line, 3, << <<"k", "float", 1>>, <<"r0", "float", 2>> >>)
    ELSE IF StartsWith(s, "class2")
    THEN Construct(line, 5, << <<"r0", "float", 1>>, <<"k2", "float", 2>>,
                               <<"k3", "float", 3>>, <<"k4", "float", 4>> >>)
    ELSE Bad

AngleType_guess_style(nparam) ==
    CASE nparam = 2 -> "harmonic" [] nparam = 4 -> "class2" [] OTHER -> Cannot

AngleType_parse_lammps(line, s) ==
    IF StartsWith(s, "harm")
    THEN Construct(line, 3, << <<"k", "float", 1>>, <<"theta0", "float", 2>> >>)
    ELSE IF StartsWith(s, "class2")
    THEN Construct(line, 5, << <<"theta0", "float", 1>>, <<"k2", "float", 2>>,
                               <<"k3", "float", 3>>, <<"k4", "float", 4>> >>)
    ELSE IF StartsWith(s, "charmm")
    THEN Construct(line, 5, << <<"k", "float", 1>>, <<"theta0", "float", 2>>,
                               <<"k_ub", "float", 3>>, <<"r_ub", "float", 4>> >>)
    ELSE Bad

DihedralType_guess_style(nparam) ==
    CASE nparam = 3 -> "harmonic"
      [] nparam # 3 /\ nparam % 3 = 1 -> "fourier"
      [] nparam = 6 -> "class2"
      [] OTHER -> Cannot

\* the m terms k, n, d that follow the tag and m
FourierLists(tag, m, name, toks) ==
    IF tag.k = "raise" \/ m.k = "raise" THEN Bad
    ELSE IF 2 + 3 * m.v > Len(toks) THEN Bad
    ELSE IF \E i \in 1..m.v : \/ ToFloat(toks[3 * i]).k = "raise"
                              \/ ToInt(toks[3 * i + 1]).k = "raise"
                              \/ ToFloat(toks[3 * i + 2]).k = "raise"
    THEN Bad
    ELSE Good([tag |-> tag.v, name |-> name,
               at |-> [m |-> m,
                       k |-> PyList([i \in 1..m.v |-> ToFloat(toks[3 * i])]),
                       n |-> PyList([i \in 1..m.v |-> ToInt(toks[3 * i + 1])]),
                       d |-> PyList([i \in 1..m.v |-> ToFloat(toks[3 * i + 2])])]])

DihedralType_parse_lammps(line, s) ==
    IF StartsWith(s, "harm")
    THEN Construct(line, 4, << <<"k", "float", 1>>, <<"d", "int", 2>>,
                               <<"n", "int", 3>> >>)
    ELSE IF StartsWith(s, "fourier")
    THEN IF Len(Data(line)) % 3 # 2 THEN Bad
         ELSE FourierLists(ToInt(Data(line)[1]), ToInt(Data(line)[2]),
                           Comment(line), Data(line))
    ELSE IF StartsWith(s, "class2")
    THEN Construct(line, 7, << <<"k1", "float", 1>>, <<"phi1", "float", 2>>,
                               <<"k2", "float", 3>>, <<"phi2", "float", 4>>,
                               <<"k3", "float", 5>>, <<"phi3", "float", 6>> >>)
    ELSE IF StartsWith(s, "charmm")
    THEN Construct(line, 5, << <<"k", "float", 1>>, <<"n", "float", 2>>,
                               <<"d", "float", 3>>, <<"w", "float", 4>> >>)
    ELSE IF StartsWith(s, "opls")
    THEN Construct(line, 5, << <<"k1", "float", 1>>, <<"k2", "float", 2>>,
                               <<"k3", "float", 3>>, <<"k4", "float", 4>> >>)
    ELSE Bad

ImproperType_guess_style(nparam) ==
    CASE nparam = 2 -> "harmonic" [] nparam = 3 -> "cvff" [] OTHER -> Cannot

ImproperType_parse_lammps(line, s) ==
    IF StartsWith(s, "harm") \/ StartsWith(s, "class2") \/ StartsWith(s, "umbrella")
    THEN Construct(line, 3, << <<"k", "float", 1>>, <<"x0", "float", 2>> >>)
    ELSE IF StartsWith(s, "cvff")
    THEN Construct(line, 4, << <<"k", "float", 1>>, <<"d", "int", 2>>,
                               <<"n", "int", 3>> >>)
    ELSE Bad

\* the state of read_lammps between two lines: the counts declared, the
\* styles known and the stores of the System s built so far
Reader(kw) ==
    [err |-> FALSE, n |-> [c \in StoreNames |-> 0], style |-> kw,
     atom_style |-> NoStyle,
     particles |-> <<>>, particle_types |-> <<>>, bonds |-> <<>>,
     bond_types |-> <<>>, angles |-> <<>>, angle_types |-> <<>>,
     dihedrals |-> <<>>, dihedral_types |-> <<>>, impropers |-> <<>>,
     improper_types |-> <<>>]

Fail(R) == [R EXCEPT !.err = TRUE]

HeaderWords ==
    [atoms |-> "particles", atom |-> "particle_types", bonds |-> "bonds",
     bond |-> "bond_types", angles |-> "angles", angle |-> "angle_types",
     dihedrals |-> "dihedrals", dihedral |-> "dihedral_types",
     impropers |-> "impropers", improper |-> "improper_types"]

IsHeader(line) ==
    Len(line) > 1 /\ line[2].k = "word" /\ line[2].v \in DOMAIN HeaderWords

SetCount(R, line) ==
    IF ToInt(line[1]).k = "raise" THEN Fail(R)
    ELSE [R EXCEPT !.n[HeaderWords[line[2].v]] = line[1].v]

IsBox(line) ==
    Len(line) > 3 /\ line[3].k = "word" /\ line[3].v \in {"xlo", "ylo", "zlo"}

SetBox(R, line) ==
    IF ToFloat(line[1]).k = "raise" \/ ToFloat(line[2]).k = "raise"
    THEN Fail(R) ELSE R

\* the store whose declared count is the number of records of a section
SectionWords ==
    [Masses |-> "particle_types", Pair |-> "particle_types",
     Bond |-> "bond_types", Angle |-> "angle_types",
     BondBond |-> "angle_types", BondAngle |-> "angle_types",
     Dihedral |-> "dihedral_types", MiddleBondTorsion |-> "dihedral_types",
     EndBondTorsion |-> "dihedral_types", AngleTorsion |-> "dihedral_types",
     AngleAngleTorsion |-> "dihedral_types", BondBond13 |-> "dihedral_types",
     Improper |-> "improper_types", AngleAngle |-> "improper_types",
     Atoms |-> "particles", Velocities |-> "particles", Bonds |-> "bonds",
     Angles |-> "angles", Dihedrals |-> "dihedrals", Impropers |-> "impropers"]

IsSection(line) ==
    Len(line) > 0 /\ line[1].k = "word" /\ line[1].v \in DOMAIN SectionWords

\* s.<store>.add(item), or the exception the parse raised
AddParsed(R, st, res) ==
    IF ~res.ok THEN Fail(R) ELSE [R EXCEPT ![st] = ContainerAdd(@, res.it)]

\* s.<store>[tag].set(...) of the attributes at
SetOn(c, tag, at) ==
    [i \in DOMAIN c |-> IF c[i].tag = tag
                        THEN [c[i] EXCEPT !.at = Updated(@, at)] ELSE c[i]]

\* s.<store>[tag].set(**vars(pt)): the name of pt with its attributes
SetAll(c, pt) ==
    [i \in DOMAIN c |->
        IF c[i].tag = pt.tag
        THEN [c[i] EXCEPT !.name = pt.name, !.at = Updated(@, pt.at)] ELSE c[i]]

\* if s.particle_types[pt.tag]: set its mass, else: add(pt)
MergeMass(R, res) ==
    IF ~res.ok THEN Fail(R)
    ELSE IF HasTag(R.particle_types, res.it.tag)
    THEN [R EXCEPT !.particle_types = SetOn(@, res.it.tag, res.it.at)]
    ELSE [R EXCEPT !.particle_types = ContainerAdd(@, res.it)]

\* if s.particle_types[pt.tag]: set(**vars(pt)), else: add(pt)
MergeParsed(R, res) ==
    IF ~res.ok THEN Fail(R)
    ELSE IF HasTag(R.particle_types, res.it.tag)
    THEN [R EXCEPT !.particle_types = SetAll(@, res.it)]
    ELSE [R EXCEPT !.particle_types = ContainerAdd(@, res.it)]

\* if <family>_style: s.<store>.add(cls.parse_lammps(line, <family>_style))
ReadType(T, st, fam, line) ==
    IF T.err \/ T.style[fam] = NoStyle THEN T
    ELSE AddParsed(T, st,
                   CASE fam = "bond" -> BondType_parse_lammps(line, T.style[fam])
                     [] fam = "angle" -> AngleType_parse_lammps(line, T.style[fam])
                     [] fam = "dihedral" ->
                          DihedralType_parse_lammps(line, T.style[fam])
                     [] fam = "improper" ->
                          ImproperType_parse_lammps(line, T.style[fam]))

\* the style guessed anew for every record
StyledAnew(R, fam, guess) ==
    IF guess = Cannot THEN Fail(R) ELSE [R EXCEPT !.style[fam] = guess]

\* if not <family>_style: <family>_style = guess_style(...), which raises
\* for a field count it does not know
Styled(R, fam, guess) ==
    IF R.style[fam] # NoStyle THEN R
    ELSE IF guess = Cannot THEN Fail(R)
    ELSE [R EXCEPT !.style[fam] = guess]

\* a harmonic guess becomes class2 beside a class2 bond, angle or dihedral
ImproperGuess(R, guess) ==
    IF StartsWith(guess, "harmonic")
       /\ "class2" \in {R.style.bond, R.style.angle, R.style.dihedral}
    THEN "class2" ELSE guess

\* the improper style guessed from the first record of the section
ImproperStyledBy(R, guess) ==
    IF R.style.improper # NoStyle THEN R
    ELSE IF guess = Cannot THEN Fail(R)
    ELSE [R EXCEPT !.style.improper = ImproperGuess(R, guess)]

ReadPair(R, line) ==
    IF R.err \/ R.style.pair = NoStyle THEN R
    ELSE MergeParsed(R, ParticleType_parse_lammps(line, R.style.pair))

\* s.<store>[tag].<attribute> = float(line[column]) for every field
Assigned(R, st, line, fields) ==
    IF Len(line) = 0 THEN Fail(R)
    ELSE IF ToInt(line[1]).k = "raise" \/ ~AllGood(Values(line, fields))
    THEN Fail(R)
    ELSE IF ~HasTag(R[st], line[1].v) THEN Fail(R)
    ELSE [R EXCEPT ![st] = SetOn(@, line[1].v,
                                 AttrsOf(fields, Values(line, fields)))]

Ints(names) == [i \in DOMAIN names |-> <<names[i], "int", i - 1>>]

Floats(names) == [i \in DOMAIN names |-> <<names[i], "float", i>>]

ItemOf(fields, vals) ==
    [a \in {fields[i][1] : i \in DOMAIN fields} |->
        vals[CHOOSE i \in DOMAIN fields : fields[i][1] = a].v]

\* s.<store>.add(Item(tag=int(line[0]), ...))
AddedItem(R, st, line, fields) ==
    IF ~AllGood(Values(line, fields)) THEN Fail(R)
    ELSE [R EXCEPT ![st] = ContainerAdd(@, ItemOf(fields, Values(line, fields)))]

\* the columns of an Impropers record are read transposed
Transposed(R) ==
    \/ R.style.improper = "class2"
    \/ /\ HasTag(R.improper_types, 1)
       /\ Attr(ItemAt(R.improper_types, 1), "m1").k # "none"

ImproperFields(R) ==
    IF Transposed(R)
    THEN << <<"tag", "int", 0>>, <<"type", "int", 1>>, <<"a", "int", 3>>,
            <<"b", "int", 2>>, <<"c", "int", 4>>, <<"d", "int", 5>> >>
    ELSE Ints(<<"tag", "type", "a", "b", "c", "d">>)

AtomStyle(line) ==
    IF Len(line) = 7 THEN "full"
    ELSE IF Len(line) = 6
    THEN (IF ToInt(line[3]).k = "raise" THEN "charge" ELSE "molecular")
    ELSE "full"

AtomStyled(R, line) ==
    IF R.atom_style # NoStyle THEN R ELSE [R EXCEPT !.atom_style = AtomStyle(line)]

AtomFields(s) ==
    CASE s = "full" ->
           << <<"tag", "int", 0>>, <<"molecule", "int", 1>>, <<"type", "int", 2>>,
              <<"charge", "float", 3>>, <<"x", "float", 4>>, <<"y", "float", 5>>,
              <<"z", "float", 6>> >>
      [] s = "charge" ->
           << <<"tag", "int", 0>>, <<"type", "int", 1>>,
              <<"charge", "float", 2>>, <<"x", "float", 3>>, <<"y", "float", 4>>,
              <<"z", "float", 5>> >>
      [] s = "molecular" ->
           << <<"tag", "int", 0>>, <<"molecule", "int", 1>>, <<"type", "int", 2>>,
              <<"x", "float", 3>>, <<"y", "float", 4>>, <<"z", "float", 5>> >>

\* the attribute an atom style does not hold in a column
AtomFixed(s) ==
    CASE s = "charge" -> [molecule |-> 0]
      [] s = "molecular" -> [charge |-> 0]
      [] OTHER -> <<>>

AddedAtom(T, line, fields, fixed) ==
    IF ~AllGood(Values(line, fields)) THEN Fail(T)
    ELSE [T EXCEPT !.particles =
            ContainerAdd(@, Updated(ItemOf(fields, Values(line, fields)), fixed))]

ReadAtom(R, line) ==
    IF Len(line) = 0 \/ ToInt(line[1]).k = "raise" THEN Fail(R)
    ELSE AddedAtom(AtomStyled(R, line), line,
                   AtomFields(AtomStyled(R, line).atom_style),
                   AtomFixed(AtomStyled(R, line).atom_style))

\* the velocities go to the particle of the tag, a new one when it is missing
ReadVelocity(R, line) ==
    IF ~AllGood(Values(line, Ints(<<"tag">>) \o Floats(<<"vx", "vy", "vz">>)))
    THEN Fail(R)
    ELSE IF HasTag(R.particles, line[1].v) THEN R
    ELSE AddedItem(R, "particles", line, Ints(<<"tag">>))

\* one record of the section named kind
Record(R, line, kind) ==
    CASE kind = "Masses" ->
           MergeMass(R, ParticleType_parse_lammps(line, "mass"))
      [] kind = "Pair" ->
           ReadPair(Styled(R, "pair", ParticleType_guess_style(NParam(line))), line)
      [] kind = "Bond" ->
           ReadType(Styled(R, "bond", BondType_guess_style(NParam(line))),
                    "bond_types", "bond", line)
      [] kind = "Angle" ->
           ReadType(Styled(R, "angle", AngleType_guess_style(NParam(line))),
                    "angle_types", "angle", line)
      [] kind = "BondBond" ->
           Assigned(R, "angle_types", line, Floats(<<"m", "r1", "r2">>))
      [] kind = "BondAngle" ->
           Assigned(R, "angle_types", line, Floats(<<"n1", "n2", "r1", "r2">>))
      [] kind = "Dihedral" ->
           ReadType(Styled(R, "dihedral", DihedralType_guess_style(NParam(line))),
                    "dihedral_types", "dihedral", line)
      [] kind = "MiddleBondTorsion" ->
           Assigned(R, "dihedral_types", line, Floats(<<"a1", "a2", "a3", "r2">>))
      [] kind = "EndBondTorsion" ->
           Assigned(R, "dihedral_types", line,
                    Floats(<<"b1", "b2", "b3", "c1", "c2", "c3", "r1", "r3">>))
      [] kind = "AngleTorsion" ->
           Assigned(R, "dihedral_types", line,
                    Floats(<<"d1", "d2", "d3", "e1", "e2", "e3",
                             "theta1", "theta2">>))
      [] kind = "AngleAngleTorsion" ->
           Assigned(R, "dihedral_types", line, Floats(<<"m", "theta1", "theta2">>))
      [] kind = "BondBond13" ->
           Assigned(R, "dihedral_types", line, Floats(<<"n", "r1", "r3">>))
      [] kind = "Improper" ->
           ReadType(ImproperStyledBy(R, ImproperType_guess_style(NParam(line))),
                    "improper_types", "improper", line)
      [] kind = "AngleAngle" ->
           Assigned(R, "improper_types", line,
                    Floats(<<"m1", "m2", "m3", "theta1", "theta2", "theta3">>))
      [] kind = "Atoms" -> ReadAtom(R, line)
      [] kind = "Velocities" -> ReadVelocity(R, line)
      [] kind = "Bonds" ->
           AddedItem(R, "bonds", line, Ints(<<"tag", "type", "a", "b">>))
      [] kind = "Angles" ->
           AddedItem(R, "angles", line, Ints(<<"tag", "type", "a", "b", "c">>))
      [] kind = "Dihedrals" ->
           AddedItem(R, "dihedrals", line,
                     Ints(<<"tag", "type", "a", "b", "c", "d">>))
      [] kind = "Impropers" ->
           AddedItem(R, "impropers", line, ImproperFields(R))

\* for i in range(n): ... next(f) ...: n records from line j on
RECURSIVE Records(_, _, _, _, _)
Records(R, lines, j, n, kind) ==
    IF R.err \/ n <= 0 THEN [r |-> R, i |-> j]
    ELSE IF j > Len(lines) THEN [r |-> Fail(R), i |-> j]
    ELSE CHOOSE X \in {Records(T, lines, j + 1, n - 1, kind) :
                          T \in {Record(R, lines[j], kind)}} : TRUE

\* the words of a 'Pair Coeffs # style' line name the pair style
PairComment(R, line) ==
    IF R.style.pair = NoStyle /\ HashAt(line) < Len(line)
    THEN [R EXCEPT !.style.pair = line[HashAt(line) + 1].v] ELSE R

\* what the keyword line of a section does before its records are read
Entered(R, line) ==
    CASE line[1].v = "Pair" -> PairComment(R, line)
      [] line[1].v = "AngleAngle" -> [R EXCEPT !.style.improper = "class2"]
      [] OTHER -> R

\* a section: next(f) skips the line after the keyword, then the records
ReadSection(R, lines, i, kind) ==
    IF i + 1 > Len(lines) THEN [r |-> Fail(R), i |-> i + 1]
    ELSE Records(R, lines, i + 2, R.n[SectionWords[kind]], kind)

\* the body of 'for line in f' for the line at i: the reader after it and
\* the line the loop takes next
OnLine(R, lines, i) ==
    IF IsHeader(lines[i]) THEN [r |-> SetCount(R, lines[i]), i |-> i + 1]
    ELSE IF IsBox(lines[i]) THEN [r |-> SetBox(R, lines[i]), i |-> i + 1]
    ELSE IF IsSection(lines[i])
    THEN ReadSection(Entered(R, lines[i]), lines, i, lines[i][1].v)
    ELSE [r |-> R, i |-> i + 1]

RECURSIVE Scan(_, _, _)
Scan(R, lines, i) ==
    IF R.err \/ i > Len(lines) THEN R
    ELSE CHOOSE X \in {Scan(T.r, lines, T.i) : T \in {OnLine(R, lines, i)}} : TRUE

\* 'yes', 'no', or 'raise' when a style that is None is asked startswith
AnyStartsWith(st, prefix) ==
    IF st.bond = NoStyle THEN "raise"
    ELSE IF StartsWith(st.bond, prefix) THEN "yes"
    ELSE IF st.angle = NoStyle THEN "raise"
    ELSE IF StartsWith(st.angle, prefix) THEN "yes"
    ELSE IF st.dihedral = NoStyle THEN "raise"
    ELSE IF StartsWith(st.dihedral, prefix) THEN "yes"
    ELSE "no"

\* the improper style guessed from the other styles once the file is read
ImproperStyled(R) ==
    IF R.style.improper # NoStyle \/ Count(R.impropers) <= 1 THEN R
    ELSE IF AnyStartsWith(R.style, "harm") = "raise" THEN Fail(R)
    ELSE IF AnyStartsWith(R.style, "harm") = "yes"
    THEN [R EXCEPT !.style.improper = "harmonic"]
    ELSE IF AnyStartsWith(R.style, "class2") = "yes"
    THEN [R EXCEPT !.style.improper = "class2"]
    ELSE R

\* an lj pair style beside a class2 bond, angle or dihedral style is class2
PairStyled(R) ==
    IF StartsWith(R.style.pair, "lj")
       /\ \E x \in {R.style.bond, R.style.angle, R.style.dihedral} :
             StartsWith(x, "class2")
    THEN [R EXCEPT !.style.pair = "class2"] ELSE R

Failed == [st |-> "error"]

\* the System read_lammps returns
Returned(R) ==
    IF R.err THEN Failed
    ELSE [st |-> "ok", style |-> R.style, atom_style |-> R.atom_style,
          ff_class |-> IF "class2" \in {R.style.pair, R.style.bond, R.style.angle,
                                        R.style.dihedral, R.style.improper}
                       THEN "2" ELSE "1",
          particles |-> R.particles, particle_types |-> R.particle_types,
          bonds |-> R.bonds, bond_types |-> R.bond_types,
          angles |-> R.angles, angle_types |-> R.angle_types,
          dihedrals |-> R.dihedrals, dihedral_types |-> R.dihedral_types,
          impropers |-> R.impropers, improper_types |-> R.improper_types]

Finished(R) == IF R.err THEN Failed ELSE Returned(PairStyled(ImproperStyled(R)))

\* read_lammps(text, pair_style=..., ...): the first line is the name
read_lammps(lines, kw) ==
    IF lines = <<>> THEN Failed ELSE Finished(Scan(Reader(kw), lines, 2))

(* systems to write: the types of a store hold the coefficients of the     *)
(* style the system is written in                                          *)
Coeff(tag, i, fine) ==
    PyFloat((32 * tag + i) * 1000000 + (IF fine THEN 7 ELSE 0))

FloatAttrs(names, tag, fine) ==
    [a \in Range(names) |->
        Coeff(tag, CHOOSE i \in DOMAIN names : names[i] = a, fine)]

PairAttrs(s, tag, fine) ==
    CASE s = "charmm" ->
           FloatAttrs(<<"mass", "epsilon", "sigma", "epsilon_14", "sigma_14">>,
                      tag, fine)
      [] s = "buck" -> FloatAttrs(<<"mass", "a", "rho", "c">>, tag, fine)
      [] OTHER -> FloatAttrs(<<"mass", "epsilon", "sigma">>, tag, fine)

BondAttrs(s, tag, fine) ==
    IF s = "class2" THEN FloatAttrs(<<"r0", "k2", "k3", "k4">>, tag, fine)
    ELSE FloatAttrs(<<"k", "r0">>, tag, fine)

AngleAttrs(s, tag, fine) ==
    CASE s = "class2" ->
           FloatAttrs(<<"theta0", "k2", "k3", "k4", "m", "r1", "r2", "n1", "n2">>,
                      tag, fine)
      [] s = "charmm" -> FloatAttrs(<<"k", "theta0", "k_ub", "r_ub">>, tag, fine)
      [] OTHER -> FloatAttrs(<<"k", "theta0">>, tag, fine)

Class2Dihedral ==
    <<"k1", "phi1", "k2", "phi2", "k3", "phi3", "a1", "a2", "a3", "r2",
      "b1", "b2", "b3", "c1", "c2", "c3", "r1", "r3", "d1", "d2", "d3",
      "e1", "e2", "e3", "theta1", "theta2", "m">>

DihedralAttrs(s, tag, fine, partial) ==
    CASE s = "class2" ->
           FloatAttrs(Class2Dihedral \o (IF partial THEN <<>> ELSE <<"n">>),
                      tag, fine)
      [] s = "charmm" ->
           Updated(FloatAttrs(<<"k", "w">>, tag, fine),
                  [n |-> PyInt(tag + 1), d |-> PyInt(180)])
      [] s = "opls" -> FloatAttrs(<<"k1", "k2", "k3", "k4">>, tag, fine)
      [] s = "fourier" ->
           [m |-> PyInt(tag),
            k |-> PyList([i \in 1..tag |-> Coeff(tag, i, fine)]),
            n |-> PyList([i \in 1..tag |-> PyInt(i)]),
            d |-> PyList([i \in 1..tag |-> Coeff(tag, 8 + i, fine)])]
      [] OTHER ->
           Updated(FloatAttrs(<<"k">>, tag, fine),
                  [d |-> PyInt(1), n |-> PyInt(tag + 1)])

ImproperAttrs(s, tag, fine, partial) ==
    CASE s = "class2" ->
           FloatAttrs(<<"m1", "m2", "m3", "theta1", "theta2", "theta3">>
                      \o (IF partial THEN <<>> ELSE <<"k", "x0">>), tag, fine)
      [] s = "cvff" ->
           Updated(FloatAttrs(<<"k">>, tag, fine), [d |-> PyInt(0 - 1), n |-> PyInt(2)])
      [] OTHER -> FloatAttrs(<<"k", "x0">>, tag, fine)

Typed(t, at) ==
    [tag |-> t.tag, id |-> t.id, name |-> t.name, src |-> t.src, at |-> at]

\* the system S with the coefficients of the force field fam on its types
Parametrized(S, fam, fine) ==
    [S EXCEPT
        !.particle_types =
            [i \in DOMAIN @ |-> Typed(@[i], PairAttrs(fam.style.pair, @[i].tag, fine))],
        !.bond_types =
            [i \in DOMAIN @ |-> Typed(@[i], BondAttrs(fam.style.bond, @[i].tag, fine))],
        !.angle_types =
            [i \in DOMAIN @ |->
                Typed(@[i], AngleAttrs(fam.style.angle, @[i].tag, fine))],
        !.dihedral_types =
            [i \in DOMAIN @ |->
                Typed(@[i], DihedralAttrs(fam.style.dihedral, @[i].tag, fine,
                                          fam.partial))],
        !.improper_types =
            [i \in DOMAIN @ |->
                Typed(@[i], ImproperAttrs(fam.style.improper, @[i].tag, fine,
                                          fam.partial))]]

\* a branched molecule that holds every kind of bonded term
Branched ==
    [n |-> 5, ptype |-> <<"B", "A", "A", "B", "A">>, mol |-> <<1, 1, 1, 1, 1>>,
     bonds |-> << <<1, 2>>, <<1, 3>>, <<1, 4>>, <<4, 5>> >>,
     angles |-> << <<2, 1, 3>>, <<2, 1, 4>>, <<3, 1, 4>>, <<1, 4, 5>> >>,
     dihedrals |-> << <<2, 1, 4, 5>>, <<3, 1, 4, 5>> >>,
     impropers |-> << <<1, 2, 3, 4>>, <<1, 2, 4, 3>> >>]

CodecConfigs == {Dimers, Star, Chain, Branched}

\* the styles write_lammps and parse_lammps both know, by force-field class
Class1Styles ==
    {Styles(p, "harmonic", a, d, i) :
        p \in {"lj", "charmm", "buck"}, a \in {"harmonic", "charmm"},
        d \in {"harmonic", "fourier", "charmm", "opls"},
        i \in {"harmonic", "umbrella", "cvff"}}

Class2Styles ==
    {Styles(p, "class2", "class2", "class2", "class2") : p \in {"class2", "lj/cut"}}

Families ==
    {[style |-> s, cls |-> "1", partial |-> FALSE] : s \in Class1Styles}
    \cup {[style |-> s, cls |-> "2", partial |-> q] :
             s \in Class2Styles, q \in BOOLEAN}

WriteLammps ==
    /\ SetSys(Defaulted(Sys, style, write_coeffs))
    /\ data' = write_lammps(Sys, style, write_coeffs)
    /\ last' = Call("write_lammps", 0, 0, FALSE)
    /\ pre' = Snapshot
    /\ UNCHANGED <<lib, nrem, nadd, style, write_coeffs, loaded, geometry>>

\* read_lammps(data), told the styles of the system that wrote it or not
ReadLammps(told) ==
    /\ data.st = "ok"
    /\ loaded' = read_lammps(data.lines,
                             IF told THEN style
                             ELSE Styles(NoStyle, NoStyle, NoStyle, NoStyle, NoStyle))
    /\ last' = Call("read_lammps", 0, 0, told)
    /\ pre' = Snapshot
    /\ SetSys(Sys)
    /\ UNCHANGED <<lib, nrem, nadd, style, write_coeffs, data, geometry>>

InitCodec ==
    \E g \in CodecConfigs, fam \in Families, fine \in BOOLEAN, wc \in BOOLEAN :
        /\ StartsAs(Parametrized(SystemOf(g, fam.cls), fam, fine))
        /\ lib = LibEmpty
        /\ style = fam.style
        /\ write_coeffs = wc
        /\ AtCorner(Box(0, 10, 0, 10, 0, 10))

NextCodec ==
    \/ WriteLammps
    \/ \E told \in BOOLEAN : ReadLammps(told)

SpecCodec == InitCodec /\ [][NextCodec]_vars

(* ------------------------- data files not written by pysimm ------------ *)
(* read_lammps takes any text.  The texts read here are the text the      *)
(* system wrote with one record changed: a field taken from it or added   *)
(* to it, the record left out, or the record written twice.               *)

\* the line that holds the keyword of a section, 0 when the text has none
SectionAt(lines, kind) ==
    IF \E i \in DOMAIN lines : IsSection(lines[i]) /\ lines[i][1].v = kind
    THEN CHOOSE i \in DOMAIN lines : IsSection(lines[i]) /\ lines[i][1].v = kind
    ELSE 0

\* the records of the section whose keyword is at line i: the lines from
\* i + 2 up to the next blank line
RECURSIVE RecordsFrom(_, _)
RecordsFrom(lines, j) ==
    IF j > Len(lines) \/ lines[j] = <<>> THEN 0 ELSE 1 + RecordsFrom(lines, j + 1)

SectionSize(lines, kind) ==
    IF SectionAt(lines, kind) = 0 THEN 0
    ELSE RecordsFrom(lines, SectionAt(lines, kind) + 2)

\* the record without its last field, and with one more field
Shorter(line) ==
    SubSeq(line, 1, HashAt(line) - 2) \o SubSeq(line, HashAt(line), Len(line))

Longer(line) ==
    Data(line) \o <<DecText(10000000)>> \o SubSeq(line, HashAt(line), Len(line))

\* the record without its last two fields
Shortest(line) == Shorter(Shorter(line))

Edit(how, kind, k) == [how |-> how, kind |-> kind, k |-> k]

EditAt(lines, e) == SectionAt(lines, e.kind) + 1 + e.k

Applies(lines, e) == e.k <= SectionSize(lines, e.kind)

Edited(lines, e) ==
    CASE e.how = "shorter" ->
           [lines EXCEPT ![EditAt(lines, e)] = Shorter(@)]
      [] e.how = "shortest" ->
           [lines EXCEPT ![EditAt(lines, e)] = Shortest(@)]
      [] e.how = "longer" ->
           [lines EXCEPT ![EditAt(lines, e)] = Longer(@)]
      [] e.how = "left out" ->
           SubSeq(lines, 1, EditAt(lines, e) - 1)
           \o SubSeq(lines, EditAt(lines, e) + 1, Len(lines))
      [] e.how = "twice" ->
           SubSeq(lines, 1, EditAt(lines, e))
           \o SubSeq(lines, EditAt(lines, e), Len(lines))

\* the family whose coefficients a section holds
FamilyOf ==
    [Pair |-> "pair", Bond |-> "bond", Angle |-> "angle",
     Dihedral |-> "dihedral", Improper |-> "improper"]

NoStyles == Styles(NoStyle, NoStyle, NoStyle, NoStyle, NoStyle)

MaxRecord == 2

\* a record of any section left out or written twice, a record of a
\* coefficient section with other fields
Edits ==
    {Edit(how, kind, k) : how \in {"left out", "twice"},
                          kind \in DOMAIN SectionWords, k \in 1..MaxRecord}
    \cup {Edit(how, kind, k) : how \in {"shorter", "shortest", "longer"},
                               kind \in DOMAIN FamilyOf, k \in 1..MaxRecord}

\* force fields that between them hold every style of every family
TextFamilies ==
    {fam \in Families :
        \/ fam.cls = "2" /\ fam.style.pair = "class2"
        \/ <<fam.style.pair, fam.style.angle, fam.style.dihedral,
              fam.style.improper>>
              \in {<<"lj", "harmonic", "harmonic", "harmonic">>,
                    <<"charmm", "harmonic", "harmonic", "cvff">>,
                    <<"buck", "harmonic", "fourier", "umbrella">>,
                    <<"lj", "charmm", "opls", "cvff">>}}

\* text = s.write_lammps('string'), then read_lammps(text with the edit e)
ReadEdited(told, e) ==
    /\ last.op = "write_lammps"
    /\ data.st = "ok"
    /\ Applies(data.lines, e)
    /\ loaded' = read_lammps(Edited(data.lines, e),
                             IF told THEN style ELSE NoStyles)
    /\ last' = [op |-> "read_lammps", a |-> e.k, b |-> 0, upd |-> told,
                args |-> <<e.how, e.kind>>]
    /\ pre' = Snapshot
    /\ SetSys(Sys)
    /\ UNCHANGED <<lib, nrem, nadd, style, write_coeffs, data, geometry>>

\* a system that holds two types in every family, written with its
\* coefficients
InitText ==
    \E fam \in TextFamilies :
        /\ StartsAs(Parametrized(SystemOf(Branched, fam.cls), fam, FALSE))
        /\ lib = LibEmpty
        /\ style = fam.style
        /\ write_coeffs = TRUE
        /\ AtCorner(Box(0, 10, 0, 10, 0, 10))

NextText ==
    \/ WriteLammps
    \/ \E told \in BOOLEAN, e \in Edits : ReadEdited(told, e)

SpecText == InitText /\ [][NextText]_vars

(* ------------------------- written sections ---------------------------- *)
\* force fields whose class and styles disagree: a class 1 system with one
\* class2 style, a class 2 system with class 1 styles
MixedFamilies ==
    {[style |-> s, cls |-> "1", partial |-> FALSE] :
        s \in {Styles("lj", "harmonic", "class2", "harmonic", "harmonic"),
               Styles("lj", "harmonic", "harmonic", "class2", "harmonic"),
               Styles("lj", "harmonic", "harmonic", "harmonic", "class2")}}
    \cup {[style |-> Styles("lj", "harmonic", "harmonic", "harmonic", "harmonic"),
           cls |-> "2", partial |-> FALSE]}

InitWrite ==
    \E g \in CodecConfigs, fam \in Families \cup MixedFamilies, wc \in BOOLEAN :
        /\ StartsAs(Parametrized(SystemOf(g, fam.cls), fam, FALSE))
        /\ lib = LibEmpty
        /\ style = fam.style
        /\ write_coeffs = wc
        /\ AtCorner(Box(0, 10, 0, 10, 0, 10))

NextWrite == WriteLammps

SpecWrite == InitWrite /\ [][NextWrite]_vars

(* ------------------------- reference resolution ------------------------ *)
(* read_lammps leaves tags in the items it reads; objectify replaces each  *)
(* tag by the object of that tag.  An object is modelled by its tag and    *)
(* None by 0.                                                              *)

\* a data file without the Atoms and Velocities records of the tags gone:
\* the lines of these records left out and the count of atoms lowered
Recounted(line, gone) ==
    IF Len(line) = 2 /\ IsWord(line[2], "atoms")
    THEN <<IntText(line[1].v - Cardinality(gone)), line[2]>> ELSE line

\* the lines of the records of a section
RecordLines(lines, kind) ==
    IF SectionAt(lines, kind) = 0 THEN {}
    ELSE (SectionAt(lines, kind) + 2)
            ..(SectionAt(lines, kind) + 1 + SectionSize(lines, kind))

\* the lines that hold the records of the atoms that are gone
GoneLines(lines, gone) ==
    {j \in RecordLines(lines, "Atoms") \cup RecordLines(lines, "Velocities") :
        lines[j][1].v \in gone}

\* the lines that are not in D, in their order
Remaining(lines, gone, D) ==
    [i \in 1..(Len(lines) - Cardinality(D)) |->
        Recounted(lines[CHOOSE j \in i..(i + Cardinality(D)) :
                            j \notin D /\ j - Cardinality({d \in D : d < j}) = i],
                  gone)]

Without(lines, gone) ==
    CHOOSE text \in {Remaining(lines, gone, D) : D \in {GoneLines(lines, gone)}} :
        TRUE

\* ItemContainer[tag]: the object of the tag, None when there is none
Lookup(c, tag) == IF HasTag(c, tag) THEN tag ELSE 0

\* what objectify keeps beside the stores: the flag objectified, whether
\* set_references has run, the molecules made, the terms already resolved
Raw(L) ==
    IF "objectified" \in DOMAIN L THEN L
    ELSE L @@ [objectified |-> FALSE, refs |-> FALSE, molecules |-> {},
               done |-> [st \in {"bonds", "angles", "dihedrals", "impropers"}
                            |-> {}],
               err |-> FALSE]

\* the elif of the angle loop of set_references reads b, the variable of the
\* bond loop, which is unbound when the system holds no bond
AngleElif(R) ==
    \E i \in DOMAIN R.angles : R.refs \/ ~HasTag(R.angle_types, R.angles[i].type)

set_references(R) ==
    IF R.bonds = <<>> /\ AngleElif(R) THEN [R EXCEPT !.err = TRUE]
    ELSE [R EXCEPT !.refs = TRUE]

\* for p in self.particles: the Molecule of the tag p.molecule, made when
\* the system has none
WithMolecules(R) ==
    [R EXCEPT !.molecules =
        @ \cup {R.particles[i].molecule : i \in DOMAIN R.particles}]

\* x.a = self.particles[x.a], ...
Referenced(R, x, names) ==
    [f \in DOMAIN x |-> IF f \in names THEN Lookup(R.particles, x[f]) ELSE x[f]]

\* one of the four loops of objectify: every term that still holds tags gets
\* its references; the attributes of the references named in used are read
\* at once, which raises AttributeError on None
RECURSIVE ObjectifyLoop(_, _, _, _, _)
ObjectifyLoop(R, st, i, names, used) ==
    IF R.err \/ i > Len(R[st]) THEN R
    ELSE IF i \in R.done[st] THEN ObjectifyLoop(R, st, i + 1, names, used)
    ELSE ObjectifyLoop(
            [R EXCEPT ![st][i] = Referenced(R, @, names),
                      !.done[st] = @ \cup {i},
                      !.err = \E f \in used : Lookup(R.particles, R[st][i][f]) = 0],
            st, i + 1, names, used)

Objectified(R) ==
    ObjectifyLoop(
        ObjectifyLoop(
            ObjectifyLoop(
                ObjectifyLoop(WithMolecules(R), "bonds", 1, {"a", "b"}, {"a", "b"}),
                "angles", 1, {"a", "b", "c"}, {"a"}),
            "dihedrals", 1, {"a", "b", "c", "d"}, {"a"}),
        "impropers", 1, {"a", "b", "c", "d"}, {"a"})

Finish(R) == IF R.err THEN R ELSE [R EXCEPT !.objectified = TRUE]

\* objectify(): the system after the call and what the call returned
objectify(R) ==
    IF R.objectified THEN [sys |-> R, ret |-> "already objectified"]
    ELSE IF set_references(R).err
    THEN [sys |-> [R EXCEPT !.err = FALSE], ret |-> "raise"]
    ELSE [sys |-> [Finish(Objectified(set_references(R))) EXCEPT !.err = FALSE],
          ret |-> IF Objectified(set_references(R)).err THEN "raise" ELSE "None"]

MaxGone == 2

\* read_lammps(text, set_types=False) of the written text without some atoms
ReadWithout(gone) ==
    /\ last.op = "write_lammps"
    /\ data.st = "ok"
    /\ gone \subseteq {particles[i].tag : i \in DOMAIN particles}
    /\ \E text \in {Without(data.lines, gone)} :
          loaded' = read_lammps(text, NoStyles)
    /\ last' = [op |-> "read_lammps", a |-> 0, b |-> 0, upd |-> FALSE,
                args |-> <<gone>>]
    /\ pre' = Snapshot
    /\ SetSys(Sys)
    /\ UNCHANGED <<lib, nrem, nadd, style, write_coeffs, data, geometry>>

\* s.objectify() on the system read_lammps returned; last.upd tells whether
\* objectify was called on it before
Objectify ==
    /\ loaded.st = "ok"
    /\ loaded' = objectify(Raw(loaded)).sys
    /\ returned' = objectify(Raw(loaded)).ret
    /\ last' = [op |-> "objectify", a |-> 0, b |-> 0,
                upd |-> Raw(loaded).refs, args |-> last.args]
    /\ pre' = Snapshot
    /\ SetSys(Sys)
    /\ UNCHANGED <<lib, nrem, nadd, style, write_coeffs, data, coords, dim, was>>

PlainFamily ==
    [style |-> Styles("lj", "harmonic", "harmonic", "harmonic", "harmonic"),
     cls |-> "1", partial |-> FALSE]

\* a data file whose angles, dihedrals and impropers name atoms that no
\* bond holds
Loose ==
    [n |-> 5, ptype |-> <<"A", "B", "A", "B", "A">>, mol |-> <<1, 1, 1, 1, 1>>,
     bonds |-> << <<1, 2>>, <<1, 3>> >>,
     angles |-> << <<2, 1, 3>>, <<2, 1, 4>> >>,
     dihedrals |-> << <<2, 1, 4, 5>>, <<3, 1, 4, 5>> >>,
     impropers |-> << <<1, 2, 3, 4>>, <<1, 2, 4, 3>> >>]

InitObjectify ==
    \E g \in CodecConfigs \cup {Loose}, wc \in BOOLEAN :
        /\ StartsAs(Parametrized(SystemOf(g, "1"), PlainFamily, FALSE))
        /\ lib = LibEmpty
        /\ style = PlainFamily.style
        /\ write_coeffs = wc
        /\ AtCorner(Box(0, 10, 0, 10, 0, 10))

NextObjectify ==
    \/ WriteLammps
    \/ \E gone \in {G \in SUBSET PIDS : Cardinality(G) <= MaxGone} :
          ReadWithout(gone)
    \/ Objectify

SpecObjectify == InitObjectify /\ [][NextObjectify]_vars

(* ------------------------- molecules over time ------------------------- *)
\* particles removed, the cleanup passes and the merges of make_new_bonds,
\* in any order
InitMolecules == InitWith({TrimerAndAtom, Dimers}, {"1"}, {LibRich})

NextMolecules ==
    \/ \E t \in 1..MaxP, upd \in BOOLEAN : Remove("particles", t, upd)
    \/ \E upd \in BOOLEAN : RemoveSpareBonding(upd)
    \/ UpdateTags
    \/ \E p1 \in ParticleIds(Sys), p2 \in ParticleIds(Sys) : MakeNewBonds(p1, p2)

SpecMolecules == InitMolecules /\ [][NextMolecules]_vars

(* ------------------------- periodic geometry --------------------------- *)
(* Coordinates and box bounds are counted in whole length units, so the    *)
(* arithmetic of wrap and unwrap is exact.                                 *)
MaxImages == 2

SanityThreshold == 5

\* Dimension.dx, dy, dz
Extent(box) == [x |-> box.xhi - box.xlo, y |-> box.yhi - box.ylo,
                z |-> box.zhi - box.zlo]

Lo(box) == [x |-> box.xlo, y |-> box.ylo, z |-> box.zlo]

Hi(box) == [x |-> box.xhi, y |-> box.yhi, z |-> box.zhi]

Axes == {"x", "y", "z"}

Abs(n) == IF n < 0 THEN 0 - n ELSE n

\* while p.x > self.dim.xhi: p.x -= self.dim.dx
RECURSIVE WrapDown(_, _, _)
WrapDown(c, hi, d) == IF c > hi THEN WrapDown(c - d, hi, d) ELSE c

\* while p.x < self.dim.xlo: p.x += self.dim.dx
RECURSIVE WrapUp(_, _, _)
WrapUp(c, lo, d) == IF c < lo THEN WrapUp(c + d, lo, d) ELSE c

\* one image down or up, whatever the distance
WrapAxisOnce(c, lo, hi) ==
    IF c > hi THEN c - (hi - lo) ELSE IF c < lo THEN c + (hi - lo) ELSE c

WrapAxis(c, lo, hi) == WrapUp(WrapDown(c, hi, hi - lo), lo, hi - lo)

\* System.wrap: the coordinates of the particles of S afterwards
wrap(S, C, box) ==
    [p \in DOMAIN C |->
        IF p \in ParticleIds(S)
        THEN [a \in Axes |-> WrapAxis(C[p][a], Lo(box)[a], Hi(box)[a])]
        ELSE C[p]]

\* dx = p.x - pb.x; while abs(dx) > self.dim.dx / 2: pb.x += or -= dx
RECURSIVE ShiftTo(_, _, _)
ShiftTo(pc, pbc, d) ==
    IF 2 * Abs(pc - pbc) > d
    THEN ShiftTo(pc, IF pc - pbc > 0 THEN pbc + d ELSE pbc - d, d)
    ELSE pbc

\* the walk of unwrap: coordinates, the particles flagged unwrapped and the
\* list next_to_unwrap
Walk(C) == [c |-> C, un |-> {}, q |-> <<>>]

\* the body of 'for pb in p.bonded_to'
Visit(W, p, pb, box) ==
    IF pb \in W.un THEN W
    ELSE [c |-> [W.c EXCEPT ![pb] =
                    [a \in Axes |-> ShiftTo(W.c[p][a], W.c[pb][a], Extent(box)[a])]],
          un |-> W.un \cup {pb},
          q |-> Append(W.q, pb)]

RECURSIVE VisitAll(_, _, _, _)
VisitAll(W, p, nbrs, box) ==
    IF nbrs = <<>> THEN W
    ELSE CHOOSE X \in {VisitAll(V, p, Tail(nbrs), box) :
                          V \in {Visit(W, p, Head(nbrs), box)}} : TRUE

\* 'for p in next_to_unwrap', which sees the particles appended on the way
RECURSIVE Drain(_, _, _, _)
Drain(W, i, S, box) ==
    IF i > Len(W.q) THEN W
    ELSE CHOOSE X \in {Drain(V, i + 1, S, box) :
                          V \in {VisitAll(W, W.q[i], S.bonded_to[W.q[i]].to, box)}} :
            TRUE

\* the body of 'for p0 in m.particles'
Seeded(W, p0, S, box) ==
    Drain([W EXCEPT !.un = @ \cup {p0}, !.q = Append(@, p0)], 1, S, box)

RECURSIVE SeedAll(_, _, _, _)
SeedAll(W, ps, S, box) ==
    IF ps = <<>> THEN W
    ELSE CHOOSE X \in {SeedAll(V, Tail(ps), S, box) :
                          V \in {Seeded(W, Head(ps), S, box)}} : TRUE

\* 'for m in self.molecules'
RECURSIVE MoleculeLoop(_, _, _, _)
MoleculeLoop(W, ms, S, box) ==
    IF ms = <<>> THEN W
    ELSE CHOOSE X \in {MoleculeLoop(V, Tail(ms), S, box) :
                          V \in {SeedAll(W, S.mparts[Head(ms).id], S, box)}} : TRUE

\* calc.distance(b.a, b.b) > 5, on the squares
TooLong(C, b) ==
    (C[b.a].x - C[b.b].x) * (C[b.a].x - C[b.b].x)
    + (C[b.a].y - C[b.b].y) * (C[b.a].y - C[b.b].y)
    + (C[b.a].z - C[b.b].z) * (C[b.a].z - C[b.b].z)
    > SanityThreshold * SanityThreshold

\* the sanity check that ends unwrap
Sane(S, C) == \A i \in DOMAIN S.bonds : ~TooLong(C, S.bonds[i])

Unwrapped(S, C, box) == MoleculeLoop(Walk(C), S.molecules, S, box).c

\* System.unwrap: the system, the coordinates and the value returned
unwrap(S, C, box) ==
    [sys |-> add_particle_bonding(S),
     c |-> Unwrapped(add_particle_bonding(S), C, box),
     ret |-> IF Sane(S, Unwrapped(add_particle_bonding(S), C, box))
             THEN "True" ELSE "False"]

\* three particles in a chain, and in a ring
Trimer ==
    [n |-> 3, ptype |-> <<"B", "B", "B">>, mol |-> <<1, 1, 1>>,
     bonds |-> << <<1, 2>>, <<2, 3>> >>, angles |-> <<>>, dihedrals |-> <<>>,
     impropers |-> <<>>]

Ring == [Trimer EXCEPT !.bonds = << <<1, 2>>, <<2, 3>>, <<3, 1>> >>]

GeomConfigs == {Trimer, Ring}

GeomBoxes == {Box(0, 4, 0 - 2, 2, 1, 6), Box(0 - 6, 6, 0, 12, 0, 12)}

\* coordinates on an axis: the low edge, the middle and the last unit of the
\* box, in the box and in its images up to MaxImages box lengths away
Along(lo, hi) ==
    {lo + k * (hi - lo) + r :
        k \in {0 - MaxImages, 0, 1, MaxImages},
        r \in {0, (hi - lo) \div 2, hi - lo - 1}}

\* a particle at a on the x axis: its y mirrors a in the box, its z is a one
\* image up
Placed(a, box) ==
    Point(a, box.ylo + (box.xhi - a), box.zhi + (a - box.xlo))

Wrap ==
    /\ coords' = wrap(Sys, coords, dim)
    /\ was' = coords
    /\ returned' = "None"
    /\ last' = Call("wrap", 0, 0, FALSE)
    /\ pre' = Snapshot
    /\ SetSys(Sys)
    /\ UNCHANGED <<lib, nrem, nadd, codec, dim>>

Unwrap ==
    /\ SetSys(unwrap(Sys, coords, dim).sys)
    /\ coords' = unwrap(Sys, coords, dim).c
    /\ returned' = unwrap(Sys, coords, dim).ret
    /\ was' = coords
    /\ last' = Call("unwrap", 0, 0, FALSE)
    /\ pre' = Snapshot
    /\ UNCHANGED <<lib, nrem, nadd, codec, dim>>

InitGeom ==
    \E g \in GeomConfigs, box \in GeomBoxes :
        \E xs \in [1..g.n -> Along(box.xlo, box.xhi)] :
            /\ StartsAs(SystemOf(g, "1"))
            /\ lib = LibEmpty
            /\ style = Styles(NoStyle, NoStyle, NoStyle, NoStyle, NoStyle)
            /\ write_coeffs = TRUE
            /\ dim = box
            /\ coords = [p \in PIDS |-> IF p <= g.n THEN Placed(xs[p], box)
                                        ELSE Point(box.xlo, box.ylo, box.zlo)]
            /\ was = coords
            /\ returned = "None"

NextGeom == Wrap \/ Unwrap

SpecGeom == InitGeom /\ [][NextGeom]_vars

(* ------------------------------- copies -------------------------------- *)
(* The System copy() returns is held in loaded. Inside it an id names an   *)
(* object of the copy; a particle of the source met inside the copy is     *)
(* written as the negative of its id.                                      *)
Foreign(p) == 0 - p

\* new.<store>[x.tag]: the object of the copy stored under the tag of x
Twin(c, id) ==
    LET t == {c[i].tag : i \in {j \in DOMAIN c : c[j].id = id}}
    IN  IF t = {} THEN 0
        ELSE LET hit == {c[i].id : i \in {j \in DOMAIN c : c[j].tag \in t}}
             IN  CHOOSE x \in hit : TRUE

\* new.molecules[p.molecule.tag]
MoleculeTwin(S, m) ==
    LET hit == {S.molecules[i].id :
                  i \in {j \in DOMAIN S.molecules : S.molecules[j].tag = S.mtag[m]}}
    IN  IF hit = {} THEN 0 ELSE CHOOSE x \in hit : TRUE

\* p.copy(): every attribute of p, bonded_to among them, is handed over as
\* it is; type, molecule, bonds, angles, dihedrals and impropers are set anew
SharedBonding(S) ==
    [p \in PIDS |-> [has |-> S.bonded_to[p].has,
                     to |-> [i \in DOMAIN S.bonded_to[p].to |->
                               Foreign(S.bonded_to[p].to[i])]]]

TermCopy(S, x, ends) ==
    [f \in DOMAIN x |-> IF f \in ends THEN Twin(S.particles, x[f]) ELSE x[f]]

copy(S) ==
    [S EXCEPT
       !.pmol = [p \in PIDS |-> IF p \in ParticleIds(S)
                                THEN MoleculeTwin(S, S.pmol[p]) ELSE S.pmol[p]],
       !.mparts = [m \in PIDS |->
                     SelectSeq([i \in DOMAIN S.particles |-> S.particles[i].id],
                               LAMBDA p : MoleculeTwin(S, S.pmol[p]) = m)],
       !.bonds = [i \in DOMAIN S.bonds |-> TermCopy(S, S.bonds[i], {"a", "b"})],
       !.angles = [i \in DOMAIN S.angles |->
                     TermCopy(S, S.angles[i], {"a", "b", "c"})],
       !.dihedrals = [i \in DOMAIN S.dihedrals |->
                        TermCopy(S, S.dihedrals[i], {"a", "b", "c", "d"})],
       !.impropers = [i \in DOMAIN S.impropers |->
                        TermCopy(S, S.impropers[i], {"a", "b", "c", "d"})],
       !.bonded_to = SharedBonding(S),
       !.pbonds = [p \in PIDS |-> IF p \in ParticleIds(S)
                                  THEN [has |-> TRUE, of |-> BondsOf(S, p)]
                                  ELSE S.pbonds[p]]]

\* the particles of the copy whose bonded_to is the container of their source
SharedWith(S) == {p \in ParticleIds(S) : S.bonded_to[p].has}

AddParticleBonding ==
    /\ last.op # "add_particle_bonding"
    /\ SetSys(add_particle_bonding(Sys))
    /\ last' = Call("add_particle_bonding", 0, 0, FALSE)
    /\ pre' = Snapshot
    /\ UNCHANGED <<lib, nrem, nadd, codec, geometry>>

Copy ==
    /\ loaded.st = "none"
    /\ loaded' = [st |-> "copy", sys |-> copy(Sys), shared |-> SharedWith(Sys)]
    /\ last' = Call("copy", 0, 0, FALSE)
    /\ pre' = Snapshot /\ SetSys(Sys)
    /\ UNCHANGED <<lib, nrem, nadd, style, write_coeffs, data, geometry>>

\* add_particle_bonding() of the copy gives each of its particles a container
\* of its own
StillShared(C, shared, a, b) ==
    IF a = b \/ ResolveBond(C, lib, QueryName(C, "bond", <<a, b>>)).type = NoRef
    THEN shared
    ELSE IF ~C.bonded_to[a].has \/ ~C.bonded_to[b].has THEN {} ELSE shared

\* new.add_bond(a, b, f) on the copy: what it adds to a container it shares
\* is added to the Particle of the source that holds the same container
CopyAddBond(a, b) ==
    /\ loaded.st = "copy"
    /\ nadd < MaxAdds
    /\ a \in ParticleIds(loaded.sys) /\ b \in ParticleIds(loaded.sys)
    /\ LET C == add_bond(loaded.sys, a, b, lib)
           sh == StillShared(loaded.sys, loaded.shared, a, b)
       IN  /\ loaded' = [st |-> "copy", sys |-> C, shared |-> sh]
           /\ SetSys([Sys EXCEPT !.bonded_to =
                        [p \in PIDS |-> IF p \in sh THEN
                             [has |-> TRUE,
                              to |-> [i \in DOMAIN C.bonded_to[p].to |->
                                        Foreign(C.bonded_to[p].to[i])]]
                                        ELSE bonded_to[p]]])
    /\ last' = Call("copy.add_bond", a, b, FALSE)
    /\ pre' = Snapshot
    /\ nadd' = nadd + 1
    /\ UNCHANGED <<lib, nrem, style, write_coeffs, data, geometry>>

InitCopy == InitWith(BondConfigs, Classes, {LibRich, LibPoor})

NextCopy ==
    \/ loaded.st = "none" /\ AddParticleBonding
    \/ loaded.st = "none" /\ \E a, b \in PIDS : AddBond(a, b)
    \/ Copy
    \/ \E a, b \in PIDS : CopyAddBond(a, b)

SpecCopy == InitCopy /\ [][NextCopy]_vars

(* --------------------------- delete_bonding ---------------------------- *)
\* store.remove(x.tag) for every x whose tag is in gone
Dropped(c, gone, upd) ==
    LET d == SelectSeq(c, LAMBDA x : x.tag \notin gone)
    IN  IF upd THEN Renumber(d) ELSE d

\* the tag of the Bond listed under t once the tags of gone are removed;
\* 0: the Bond is no longer in s.bonds
TagNow(c, gone, upd, t) ==
    IF t = 0 \/ t \in gone \/ ~HasTag(c, t) THEN 0
    ELSE IF upd
         THEN Cardinality({i \in DOMAIN c :
                             /\ c[i].tag \notin gone
                             /\ i <= CHOOSE j \in DOMAIN c : c[j].tag = t})
         ELSE t

\* 'if self.bonds: for b in self.bonds: if b in s.bonds' or else
\* 'for b in s.bonds: if self is b.a or self is b.b'
BondsGone(S, p) ==
    IF S.pbonds[p].of # <<>>
    THEN {t \in Range(S.pbonds[p].of) : t # 0 /\ HasTag(S.bonds, t)}
    ELSE {S.bonds[i].tag : i \in {j \in DOMAIN S.bonds :
                                    p \in {S.bonds[j].a, S.bonds[j].b}}}

\* the particles a term refers to
Ends(x) == {x[f] : f \in DOMAIN x \cap {"a", "b", "c", "d"}}

\* self.angles, self.dihedrals and self.impropers are never filled: the
\* else branch, 'for a in s.angles: if self is a.a or ...', is the one taken
TermsGone(c, p) == {c[i].tag : i \in {j \in DOMAIN c : p \in Ends(c[j])}}

delete_bonding(S, p, upd) ==
    [S EXCEPT
       !.bonds = Dropped(S.bonds, BondsGone(S, p), upd),
       !.angles = Dropped(S.angles, TermsGone(S.angles, p), upd),
       !.dihedrals = Dropped(S.dihedrals, TermsGone(S.dihedrals, p), upd),
       !.impropers = Dropped(S.impropers, TermsGone(S.impropers, p), upd),
       !.pbonds = [q \in PIDS |->
                     [has |-> S.pbonds[q].has,
                      of |-> [i \in DOMAIN S.pbonds[q].of |->
                                TagNow(S.bonds, BondsGone(S, p), upd,
                                       S.pbonds[q].of[i])]]]]

DeleteBonding(p) ==
    /\ nrem < MaxRemovals
    /\ p \in ParticleIds(Sys)
    /\ \E upd \in BOOLEAN :
          /\ SetSys(delete_bonding(Sys, p, upd))
          /\ last' = Call("delete_bonding", p, 0, upd)
    /\ pre' = Snapshot
    /\ nrem' = nrem + 1
    /\ UNCHANGED <<lib, nadd, codec, geometry>>

InitDelete == InitWith({TrimerAndAtom}, {"1"}, {LibRich})

NextDelete ==
    \/ AddParticleBonding
    \/ \E a, b \in PIDS : AddBond(a, b)
    \/ \E p1, p2 \in PIDS : MakeNewBonds(p1, p2)
    \/ \E p \in PIDS : DeleteBonding(p)

SpecDelete == InitDelete /\ [][NextDelete]_vars

(* -------------------------------- add ---------------------------------- *)
(* self.add(other): the objects of other become objects of self. A type    *)
(* reference with home "other" is a type object that is in no store of     *)
(* self.                                                                   *)
OtherRef(id) == TypeRef("other", id)

TypeStores == {"particle_types", "bond_types", "angle_types", "dihedral_types",
               "improper_types"}

TypeStoreOf(k) == CASE k = "bonds" -> "bond_types"
                    [] k = "angles" -> "angle_types"
                    [] k = "dihedrals" -> "dihedral_types"
                    [] k = "impropers" -> "improper_types"

\* [x.name for x in self.<store>]
TypeNames(c) == {c[i].name : i \in DOMAIN c}

\* 'for pt in other.particle_types:' and the four loops after it; moved
\* holds <<store, id in other, id in self>> of every type added to self
RECURSIVE TypesLoop(_, _, _, _)
TypesLoop(R, st, ts, unique_types) ==
    IF ts = <<>> THEN R
    ELSE IF unique_types /\ Head(ts).name \in TypeNames(R.sys[st])
         THEN TypesLoop(R, st, Tail(ts), unique_types)
         ELSE TypesLoop(
                [sys |-> [R.sys EXCEPT
                            ![st] = ContainerAdd(@, [Head(ts) EXCEPT
                                                       !.tag = 0,
                                                       !.id = R.sys.tid + 1]),
                            !.tid = @ + 1],
                 moved |-> R.moved \cup {<<st, Head(ts).id, R.sys.tid + 1>>}],
                st, Tail(ts), unique_types)

TypesAdded(S, O, unique_types) ==
    TypesLoop(TypesLoop(TypesLoop(TypesLoop(TypesLoop(
        [sys |-> S, moved |-> {}],
        "particle_types", O.particle_types, unique_types),
        "bond_types", O.bond_types, unique_types),
        "angle_types", O.angle_types, unique_types),
        "dihedral_types", O.dihedral_types, unique_types),
        "improper_types", O.improper_types, unique_types)

\* the first of dt with the fewest 'X' in its name
FewestX(dt) ==
    dt[CHOOSE i \in DOMAIN dt :
         \A j \in DOMAIN dt :
            \/ NameCountX(dt[j].name) > NameCountX(dt[i].name)
            \/ NameCountX(dt[j].name) = NameCountX(dt[i].name) /\ j >= i]

\* 'if unique_types and b.type not in self.bond_types: ...' for a term of
\* the store kind
Repointed(R, O, kind, ref) ==
    LET st == TypeStoreOf(kind)
        hit == {m[3] : m \in {x \in R.moved : x[1] = st /\ x[2] = ref.id}}
        found == ContainerGet(R.sys[st],
                              O[st][CHOOSE i \in DOMAIN O[st] :
                                      O[st][i].id = ref.id].name,
                              TRUE, FALSE)
    IN  IF hit # {} THEN TypeRef("sys", CHOOSE h \in hit : TRUE)
        ELSE CASE kind \in {"bonds", "angles"} ->
                    IF Len(found) = 1 THEN OwnRef(found[1]) ELSE OtherRef(ref.id)
               [] kind = "dihedrals" ->
                    IF found = <<>> THEN OtherRef(ref.id) ELSE OwnRef(FewestX(found))
               [] kind = "impropers" ->
                    IF found = <<>> THEN OtherRef(ref.id) ELSE OwnRef(found[1])

\* the k-th smallest of a set of ids
NthOf(F, k) == CHOOSE x \in F : Cardinality({y \in F : y < x}) = k - 1

\* the Particle objects of other, named as objects of self
Arriving(S, O) ==
    [id \in ParticleIds(O) |->
        NthOf(Fresh(S), CHOOSE i \in DOMAIN O.particles : O.particles[i].id = id)]

FreeMolecules(S) ==
    PIDS \ ({S.molecules[i].id : i \in DOMAIN S.molecules}
            \cup {S.pmol[p] : p \in ParticleIds(S)})

ArrivingMolecules(S, O) ==
    [id \in {O.molecules[i].id : i \in DOMAIN O.molecules} |->
        NthOf(FreeMolecules(S),
              CHOOSE i \in DOMAIN O.molecules : O.molecules[i].id = id)]

\* 'for b in other.bonds: del b.tag ... self.bonds.add(b)' and the like
TermsAdded(R, O, kind, unique_types) ==
    ReAddAll(R.sys[kind],
             [i \in DOMAIN O[kind] |->
                [f \in DOMAIN O[kind][i] |->
                    IF f \in {"a", "b", "c", "d"}
                    THEN Arriving(R.sys, O)[O[kind][i][f]]
                    ELSE IF f = "type"
                         THEN Repointed(R, O, kind, O[kind][i].type)
                         ELSE O[kind][i][f]]])

HasRoom(S, O) ==
    /\ Cardinality(Fresh(S)) >= Len(O.particles)
    /\ Cardinality(FreeMolecules(S)) >= Len(O.molecules)

add(S, O, unique_types) ==
    LET R == TypesAdded(S, O, unique_types)
        P == Arriving(S, O)
        M == ArrivingMolecules(S, O)
        ms == ReAddAll(S.molecules,
                       [i \in DOMAIN O.molecules |->
                          [tag |-> 0, id |-> M[O.molecules[i].id]]])
    IN  [R.sys EXCEPT
           !.particles = ReAddAll(S.particles,
                                  [i \in DOMAIN O.particles |->
                                     [tag |-> 0, id |-> P[O.particles[i].id]]]),
           !.bonds = TermsAdded(R, O, "bonds", unique_types),
           !.angles = TermsAdded(R, O, "angles", unique_types),
           !.dihedrals = TermsAdded(R, O, "dihedrals", unique_types),
           !.impropers = TermsAdded(R, O, "impropers", unique_types),
           !.molecules = ms,
           !.mtag = [m \in PIDS |->
                       IF \E i \in DOMAIN ms : ms[i].id = m
                       THEN ms[CHOOSE i \in DOMAIN ms : ms[i].id = m].tag
                       ELSE S.mtag[m]],
           !.mparts = [m \in PIDS |->
                         IF \E o \in DOMAIN M : M[o] = m
                         THEN LET o == CHOOSE x \in DOMAIN M : M[x] = m
                              IN  [i \in DOMAIN O.mparts[o] |-> P[O.mparts[o][i]]]
                         ELSE S.mparts[m]],
           !.pmol = [p \in PIDS |->
                       IF \E o \in DOMAIN P : P[o] = p
                       THEN M[O.pmol[CHOOSE x \in DOMAIN P : P[x] = p]]
                       ELSE S.pmol[p]],
           !.ptype = [p \in PIDS |->
                        IF \E o \in DOMAIN P : P[o] = p
                        THEN O.ptype[CHOOSE x \in DOMAIN P : P[x] = p]
                        ELSE S.ptype[p]],
           !.bonded_to = [p \in PIDS |->
                            IF \E o \in DOMAIN P : P[o] = p
                            THEN [has |-> FALSE, to |-> <<>>] ELSE S.bonded_to[p]],
           !.pbonds = [p \in PIDS |->
                         IF \E o \in DOMAIN P : P[o] = p
                         THEN [has |-> FALSE, of |-> <<>>] ELSE S.pbonds[p]]]

\* 'if change_dim: self.dim.xhi = max(p.x, self.dim.xhi) ...'
Stretched(box, at) ==
    [xlo |-> IF at.x < box.xlo THEN at.x ELSE box.xlo,
     xhi |-> IF at.x > box.xhi THEN at.x ELSE box.xhi,
     ylo |-> IF at.y < box.ylo THEN at.y ELSE box.ylo,
     yhi |-> IF at.y > box.yhi THEN at.y ELSE box.yhi,
     zlo |-> IF at.z < box.zlo THEN at.z ELSE box.zlo,
     zhi |-> IF at.z > box.zhi THEN at.z ELSE box.zhi]

(* the systems handed to add: molecules as read from a data file, never    *)
(* indexed, every particle of one at the same point                        *)
Lone(t) ==
    [n |-> 1, ptype |-> <<t>>, mol |-> <<1>>, bonds |-> <<>>, angles |-> <<>>,
     dihedrals |-> <<>>, impropers |-> <<>>]

PairOf(t1, t2) ==
    [n |-> 2, ptype |-> <<t1, t2>>, mol |-> <<1, 1>>, bonds |-> << <<1, 2>> >>,
     angles |-> <<>>, dihedrals |-> <<>>, impropers |-> <<>>]

Bent ==
    [n |-> 3, ptype |-> <<"A", "B", "A">>, mol |-> <<1, 1, 1>>,
     bonds |-> << <<1, 2>>, <<2, 3>> >>, angles |-> << <<1, 2, 3>> >>,
     dihedrals |-> <<>>, impropers |-> <<>>]

NoParticle ==
    [n |-> 0, ptype |-> <<>>, mol |-> <<>>, bonds |-> <<>>, angles |-> <<>>,
     dihedrals |-> <<>>, impropers |-> <<>>]

\* a data file that lists one more type than its terms use
Listing(S, st, name) ==
    [S EXCEPT ![st] = Append(@, [tag |-> Len(@) + 1, id |-> S.tid + 1,
                                 name |-> name, src |-> 0]),
              !.tid = @ + 1]

Others ==
    {[sys |-> SystemOf(g, "1"), at |-> Point(5, 5, 5)] :
        g \in {Lone("A"), Lone("B"), PairOf("A", "B"), PairOf("B", "A"), Bent}}
    \cup {[sys |-> Listing(SystemOf(PairOf("A", "B"), "1"), "bond_types",
                           <<"B", "A">>),
           at |-> Point(12, 5, 5)]}

Add(other, unique_types) ==
    /\ HasRoom(Sys, other.sys)
    /\ SetSys(add(Sys, other.sys, unique_types))
    /\ coords' = [p \in PIDS |-> IF p \in Range(Arriving(Sys, other.sys))
                                 THEN other.at ELSE coords[p]]
    /\ dim' = IF other.sys.particles = <<>> THEN dim ELSE Stretched(dim, other.at)
    /\ was' = coords
    /\ last' = [op |-> "add", a |-> Len(other.sys.particles),
                b |-> Len(other.sys.bonds), upd |-> unique_types,
                args |-> <<other>>]
    /\ pre' = Snapshot
    /\ UNCHANGED <<lib, nrem, nadd, codec, returned>>

InitAdd == InitWith({NoParticle, PairOf("A", "B")}, {"1"}, {LibRich})

NextAdd ==
    \E other \in Others, unique_types \in BOOLEAN : Add(other, unique_types)

SpecAdd == InitAdd /\ [][NextAdd]_vars

(* -------------------------- consolidate_types -------------------------- *)
(* What a loop over an ItemContainer does when an item is removed inside   *)
(* it is not fixed by the code of system.py. Two behaviours are taken:     *)
(* "snapshot", the loop walks the items that were there when it began, and *)
(* "live", the step after a removal raises and ends the call.              *)
Iterations == {"snapshot", "live"}

KindOf == [bond_types |-> "bonds", angle_types |-> "angles",
           dihedral_types |-> "dihedrals", improper_types |-> "impropers"]

\* 'for b in self.bonds: if b.type == dup: b.type = bt'
Reassigned(c, dup, pt) ==
    [i \in DOMAIN c |-> IF c[i].type = OwnRef(dup)
                        THEN [c[i] EXCEPT !.type = OwnRef(pt)] ELSE c[i]]

\* the body of 'if bt is not dup and bt.name == dup.name'
Consolidated(S, st, pt, dup, upd) ==
    LET T == IF st \in DOMAIN KindOf
             THEN [S EXCEPT ![KindOf[st]] = Reassigned(@, dup, pt)] ELSE S
    IN  [T EXCEPT ![st] =
            ContainerRemove(@, @[CHOOSE i \in DOMAIN @ : @[i].id = dup.id].tag, upd)]

\* 'for dup in self.bond_types', over the items it began with
RECURSIVE DupLoop(_, _, _, _, _)
DupLoop(S, st, pt, dups, upd) ==
    IF dups = <<>> THEN S
    ELSE IF Head(dups).id # pt.id /\ Head(dups).name = pt.name
         THEN DupLoop(Consolidated(S, st, pt, Head(dups), upd), st, pt,
                      Tail(dups), upd)
         ELSE DupLoop(S, st, pt, Tail(dups), upd)

\* 'for bt in self.bond_types', over the items it began with
RECURSIVE TypeLoop(_, _, _, _)
TypeLoop(S, st, pts, upd) ==
    IF pts = <<>> THEN S
    ELSE TypeLoop(DupLoop(S, st, Head(pts), S[st], upd), st, Tail(pts), upd)

\* the positions of the first type that has a namesake and of that namesake
FirstPair(c) ==
    LET i == CHOOSE x \in DOMAIN c :
                /\ \E y \in DOMAIN c : y > x /\ c[y].name = c[x].name
                /\ \A z \in 1..(x - 1) :
                      ~\E y \in DOMAIN c : y > z /\ c[y].name = c[z].name
    IN  <<i, CHOOSE y \in DOMAIN c :
                /\ y > i /\ c[y].name = c[i].name
                /\ \A z \in (i + 1)..(y - 1) : c[z].name # c[i].name>>

Duplicated(c) == \E x, y \in DOMAIN c : x < y /\ c[x].name = c[y].name

\* one of the five loops of consolidate_types
StoreConsolidated(R, st, iteration, upd) ==
    IF R.raised THEN R
    ELSE IF iteration = "snapshot"
         THEN [sys |-> TypeLoop(R.sys, st, R.sys[st], upd), raised |-> FALSE]
         ELSE IF Duplicated(R.sys[st])
              THEN [sys |-> Consolidated(R.sys, st,
                                         R.sys[st][FirstPair(R.sys[st])[1]],
                                         R.sys[st][FirstPair(R.sys[st])[2]], upd),
                    raised |-> TRUE]
              ELSE R

consolidate_types(S, iteration, upd) ==
    StoreConsolidated(StoreConsolidated(StoreConsolidated(StoreConsolidated(
        StoreConsolidated([sys |-> S, raised |-> FALSE],
        "particle_types", iteration, upd),
        "bond_types", iteration, upd),
        "angle_types", iteration, upd),
        "dihedral_types", iteration, upd),
        "improper_types", iteration, upd)

ConsolidateTypes ==
    /\ last.op # "consolidate_types"
    /\ \E iteration \in Iterations, upd \in BOOLEAN :
          /\ SetSys(consolidate_types(Sys, iteration, upd).sys)
          /\ last' = [op |-> "consolidate_types", a |-> 0, b |-> 0, upd |-> upd,
                      args |-> <<iteration,
                                 consolidate_types(Sys, iteration, upd).raised>>]
    /\ pre' = Snapshot
    /\ UNCHANGED <<lib, nrem, nadd, codec, geometry>>

NextConsolidate ==
    \/ \E other \in Others, unique_types \in BOOLEAN : Add(other, unique_types)
    \/ ConsolidateTypes

SpecConsolidate == InitAdd /\ [][NextConsolidate]_vars

(* ------------------------ sequences of merges -------------------------- *)
InitMerge == InitWith({Fragments, Dimers, TrimerAndAtom}, Classes, {LibRich, LibPoor})

NextMerge == \E p1, p2 \in PIDS : MakeNewBonds(p1, p2)

SpecMerge == InitMerge /\ [][NextMerge]_vars

(* --------------------- a library without the bond type ------------------ *)
\* a force field that has wildcard angle and dihedral types and no type for
\* a bond between two A
LibGap ==
    [given |-> TRUE,
     bond_types |-> LibStore(<< <<"A","B">>, <<"B","B">> >>),
     angle_types |-> LibStore(<< <<"X","A","X">>, <<"X","B","X">> >>),
     dihedral_types |-> LibStore(<< <<"X","X","X","X">> >>),
     improper_types |-> <<>>]

InitGap == InitWith({Fragments, Star, Chain}, {"1"}, {LibGap, LibPoor})

SpecGap == InitGap /\ [][NextBond]_vars

(* ----------------------------- update_types ---------------------------- *)
\* the lists handed to update_types: the very objects the stores hold, in
\* reverse order, or new objects with the same tags and names
Handed == {"held", "new"}

TypeList(S, st, handed) ==
    IF handed = "held" THEN Reverse(S[st])
    ELSE [i \in DOMAIN S[st] |-> [S[st][i] EXCEPT !.id = S.tid + i]]

\* 'bt = self.bond_types.get(b.type.name, first=True); if bt: b.type = bt[0]'
FirstOfName(c, ref) ==
    IF ref.home # "sys" \/ ~\E i \in DOMAIN c : c[i].id = ref.id THEN ref
    ELSE LET found == ContainerGet(c, c[CHOOSE i \in DOMAIN c : c[i].id = ref.id].name,
                                   TRUE, FALSE)
         IN  IF found = <<>> THEN ref ELSE OwnRef(found[1])

\* one stanza of update_types: the references are looked up in the store as
\* it is, then the store is emptied and filled from the list
TypesUpdated(S, st, handed) ==
    LET T == IF st \in DOMAIN KindOf
             THEN [S EXCEPT ![KindOf[st]] =
                     [i \in DOMAIN @ |->
                        [@[i] EXCEPT !.type = FirstOfName(S[st], @)]]]
             ELSE S
    IN  [T EXCEPT ![st] = ReAddAllKeepingTags(ContainerRemoveAll(S[st]),
                                              TypeList(S, st, handed)),
                  !.tid = IF handed = "new" THEN @ + Len(S[st]) ELSE @]

update_types(S, handed) ==
    TypesUpdated(TypesUpdated(TypesUpdated(TypesUpdated(TypesUpdated(S,
        "particle_types", handed), "bond_types", handed), "angle_types", handed),
        "dihedral_types", handed), "improper_types", handed)

UpdateTypes(handed) ==
    /\ last.op # "update_types"
    /\ SetSys(update_types(Sys, handed))
    /\ last' = [op |-> "update_types", a |-> 0, b |-> 0, upd |-> FALSE,
                args |-> <<handed>>]
    /\ pre' = Snapshot
    /\ UNCHANGED <<lib, nrem, nadd, codec, geometry>>

InitTypes == InitWith(Configs, Classes, {LibRich})

NextTypes ==
    \/ \E handed \in Handed : UpdateTypes(handed)
    \/ \E a, b \in PIDS : AddBond(a, b)

SpecTypes == InitTypes /\ [][NextTypes]_vars

(* -------------------- wrap and unwrap, step by step -------------------- *)
(* The loops of wrap and unwrap taken one iteration at a time, on the      *)
(* floats Particle.x, y, z are. A float keeps Precision significant bits:  *)
(* it is written here as the integer it equals, and every sum and          *)
(* difference is rounded to the nearest float, a tie to the even one.      *)
(* While a call runs, returned is "running" and last holds its position.   *)
Precision == 3

RECURSIVE Pow2(_)
Pow2(n) == IF n = 0 THEN 1 ELSE 2 * Pow2(n - 1)

\* the distance between neighbouring floats around n >= 0
RECURSIVE Ulp(_, _)
Ulp(n, u) == IF n < Pow2(Precision) * u THEN u ELSE Ulp(n, 2 * u)

RoundTo(n, u) ==
    IF 2 * (n % u) < u THEN (n \div u) * u
    ELSE IF 2 * (n % u) > u THEN (n \div u + 1) * u
    ELSE IF (n \div u) % 2 = 0 THEN (n \div u) * u
    ELSE (n \div u + 1) * u

\* the float a sum or difference n comes out as
Float(n) == IF n < 0 THEN 0 - RoundTo(0 - n, Ulp(0 - n, 1))
            ELSE RoundTo(n, Ulp(n, 1))

\* a coordinate so far out that a box length is lost in the rounding
Far == Pow2(Precision + 3)

Running == returned = "running"

\* the six while loops of wrap, in the order of the code
Loops ==
    << [axis |-> "x", down |-> TRUE], [axis |-> "x", down |-> FALSE],
       [axis |-> "y", down |-> TRUE], [axis |-> "y", down |-> FALSE],
       [axis |-> "z", down |-> TRUE], [axis |-> "z", down |-> FALSE] >>

\* Dimension.dx, dy, dz, as the floats they are
FloatExtent(box, a) == Float(Hi(box)[a] - Lo(box)[a])

\* one iteration of loop k of wrap for the particle at index i of
\* self.particles, or the move to the next loop when its test fails
WrapStepped(S, C, box, i, k) ==
    LET p == S.particles[i].id
        a == Loops[k].axis
    IN  IF Loops[k].down /\ C[p][a] > Hi(box)[a]
        THEN [c |-> [C EXCEPT ![p][a] = Float(@ - FloatExtent(box, a))],
              i |-> i, k |-> k]
        ELSE IF ~Loops[k].down /\ C[p][a] < Lo(box)[a]
        THEN [c |-> [C EXCEPT ![p][a] = Float(@ + FloatExtent(box, a))],
              i |-> i, k |-> k]
        ELSE IF k < Len(Loops) THEN [c |-> C, i |-> i, k |-> k + 1]
        ELSE [c |-> C, i |-> i + 1, k |-> 1]

\* the position of unwrap: where it stands (pc: at 'for p0', at 'for pb', or
\* in the while loop of an axis), the indices of m, p0, p and pb in their
\* lists, the particles flagged unwrapped and the list next_to_unwrap
Frame(pc, m, s, i, j, un, q) ==
    [pc |-> pc, m |-> m, s |-> s, i |-> i, j |-> j, un |-> un, q |-> q]

AxisAfter == [x |-> "y", y |-> "z", z |-> "pb"]

\* 'for m in self.molecules: for p0 in m.particles:' and the two lines
\* that flag p0 and append it
SeedStepped(S, F) ==
    IF F.m > Len(S.molecules) THEN [F EXCEPT !.pc = "check"]
    ELSE IF F.s > Len(S.mparts[S.molecules[F.m].id])
    THEN [F EXCEPT !.m = @ + 1, !.s = 1]
    ELSE [F EXCEPT !.pc = "pb", !.i = 1, !.j = 1,
                   !.un = @ \cup {S.mparts[S.molecules[F.m].id][F.s]},
                   !.q = Append(@, S.mparts[S.molecules[F.m].id][F.s])]

\* 'for p in next_to_unwrap: for pb in p.bonded_to:' up to the first while
NeighbourStepped(S, F) ==
    IF F.i > Len(F.q) THEN [F EXCEPT !.pc = "p0", !.s = @ + 1]
    ELSE IF F.j > Len(S.bonded_to[F.q[F.i]].to)
    THEN [F EXCEPT !.i = @ + 1, !.j = 1]
    ELSE IF S.bonded_to[F.q[F.i]].to[F.j] \in F.un THEN [F EXCEPT !.j = @ + 1]
    ELSE [F EXCEPT !.pc = "x",
                   !.un = @ \cup {S.bonded_to[F.q[F.i]].to[F.j]},
                   !.q = Append(@, S.bonded_to[F.q[F.i]].to[F.j])]

\* dx = p.x - pb.x, as the float it is
Delta(C, p, pb, a) == Float(C[p][a] - C[pb][a])

\* one iteration of 'while abs(dx) > self.dim.dx / 2' on the axis F.pc, or
\* the move to the next axis when its test fails
ShiftStepped(S, C, box, F) ==
    LET p == F.q[F.i]
        pb == S.bonded_to[F.q[F.i]].to[F.j]
    IN  IF 2 * Abs(Delta(C, p, pb, F.pc)) > FloatExtent(box, F.pc)
        THEN [c |-> [C EXCEPT ![pb][F.pc] =
                        IF Delta(C, p, pb, F.pc) > 0
                        THEN Float(@ + FloatExtent(box, F.pc))
                        ELSE Float(@ - FloatExtent(box, F.pc))],
              f |-> F]
        ELSE [c |-> C,
              f |-> IF AxisAfter[F.pc] = "pb"
                    THEN [F EXCEPT !.pc = "pb", !.j = @ + 1]
                    ELSE [F EXCEPT !.pc = AxisAfter[F.pc]]]

\* one step of the walk of unwrap
UnwrapStepped(S, C, box, F) ==
    IF F.pc = "p0" THEN [c |-> C, f |-> SeedStepped(S, F)]
    ELSE IF F.pc = "pb" THEN [c |-> C, f |-> NeighbourStepped(S, F)]
    ELSE ShiftStepped(S, C, box, F)

\* wrap is called: self.dim.check(), and the loop stands at the first particle
CallWrap ==
    /\ ~Running
    /\ returned' = "running"
    /\ last' = Call("wrap", 1, 1, FALSE)
    /\ was' = coords
    /\ pre' = Snapshot
    /\ SetSys(Sys)
    /\ UNCHANGED <<lib, nrem, nadd, codec, dim, coords>>

\* wrap goes on by one iteration, or returns when 'for p in self.particles'
\* is exhausted; last.a and last.b are the particle and the loop it is at
WrapStep ==
    /\ Running /\ last.op = "wrap"
    /\ IF last.a > Len(particles)
       THEN /\ returned' = "None"
            /\ UNCHANGED <<coords, last>>
       ELSE /\ coords' = WrapStepped(Sys, coords, dim, last.a, last.b).c
            /\ last' = Call("wrap", WrapStepped(Sys, coords, dim, last.a, last.b).i,
                            WrapStepped(Sys, coords, dim, last.a, last.b).k, FALSE)
            /\ UNCHANGED returned
    /\ SetSys(Sys)
    /\ UNCHANGED <<lib, nrem, nadd, codec, dim, was, pre>>

\* unwrap is called: self.dim.check(), self.add_particle_bonding(), the
\* empty list and the flags cleared
CallUnwrap ==
    /\ ~Running
    /\ returned' = "running"
    /\ last' = CallOn("unwrap", <<0, 0, Frame("p0", 1, 1, 1, 1, {}, <<>>)>>)
    /\ was' = coords
    /\ pre' = Snapshot
    /\ SetSys(add_particle_bonding(Sys))
    /\ UNCHANGED <<lib, nrem, nadd, codec, dim, coords>>

\* unwrap goes on by one step, or makes its bond-length check and returns
\* once the molecules are exhausted
UnwrapStep ==
    /\ Running /\ last.op = "unwrap"
    /\ IF last.args[3].pc = "check"
       THEN /\ returned' = IF Sane(Sys, coords) THEN "True" ELSE "False"
            /\ UNCHANGED <<coords, last>>
       ELSE /\ coords' = UnwrapStepped(Sys, coords, dim, last.args[3]).c
            /\ last' = CallOn("unwrap",
                           <<0, 0, UnwrapStepped(Sys, coords, dim, last.args[3]).f>>)
            /\ UNCHANGED returned
    /\ SetSys(Sys)
    /\ UNCHANGED <<lib, nrem, nadd, codec, dim, was, pre>>

FoldBox == Box(0, 3, 0, 3, 0, 3)

\* coordinates on the x axis: in the box, on its edge, an image or two
\* away, and far out on either side
FoldAlong == {0, 1, 3, 5, 0 - 4, Far, 0 - Far}

InitFold ==
    \E g \in GeomConfigs :
        \E xs \in [1..g.n -> FoldAlong] :
            /\ StartsAs(SystemOf(g, "1"))
            /\ lib = LibEmpty
            /\ style = Styles(NoStyle, NoStyle, NoStyle, NoStyle, NoStyle)
            /\ write_coeffs = TRUE
            /\ dim = FoldBox
            /\ coords = [p \in PIDS |-> IF p <= g.n THEN Point(xs[p], 1, 2)
                                        ELSE Point(0, 0, 0)]
            /\ was = coords
            /\ returned = "None"

NextFold == CallWrap \/ WrapStep \/ CallUnwrap \/ UnwrapStep

\* a call that was made goes on running: the interpreter takes its next step
SpecFold ==
    InitFold /\ [][NextFold]_vars /\ WF_vars(WrapStep) /\ WF_vars(UnwrapStep)

(* ------------------------------ claims --------------------------------- *)
TermKinds == {"bonds", "angles", "dihedrals", "impropers"}

TermParticles(x) == {x[f] : f \in DOMAIN x \cap {"a", "b", "c", "d"}}

Untagged(c) == [i \in DOMAIN c |-> [c[i] EXCEPT !.tag = 0]]

DenseTags(c) ==
    /\ Tags(c) = 1..Count(c)
    /\ \A i, j \in DOMAIN c : i # j => c[i].tag # c[j].tag

Renumbered ==
    \/ last.op = "update_tags"
    \/ last.op = "remove_spare_bonding" /\ last.upd

\* C1: once update_tags has run after any removals (renumbering deferred or
\* not), the tags of each of the ten stores are exactly 1..count, without
\* gaps and without duplicates.
C1_TagsDenseAfterUpdateTags ==
    Renumbered => \A st \in StoreNames : DenseTags(Sys[st])

C1_Witness ==
    /\ last.op = "update_tags"
    /\ nrem = MaxRemovals
    /\ ~DenseTags(pre.particles)
    /\ ~DenseTags(pre.bonds)
    /\ Len(particles) > 0

\* C2: after remove_spare_bonding no bond, angle, dihedral or improper of
\* the system references a particle that is not in particles, and every
\* term whose particles all remain is still there.
C2_SpareBondingPruned ==
    last.op = "remove_spare_bonding" =>
      \A k \in TermKinds :
         /\ \A i \in DOMAIN Sys[k] : TermParticles(Sys[k][i]) \subseteq ParticleIds(Sys)
         /\ Untagged(Sys[k]) =
              Untagged(SelectSeq(pre[k],
                 LAMBDA x : TermParticles(x) \subseteq ParticleIds(Sys)))

C2_Witness ==
    /\ last.op = "remove_spare_bonding"
    /\ ~last.upd
    /\ ~DenseTags(particles)
    /\ Len(angles) > 0
    /\ Len(angles) < Len(pre.angles)
    /\ Len(bonds) < Len(pre.bonds)

(* ------------------ claims about the type resolver --------------------- *)
Created(k) == SubSeq(Sys[k], Len(pre[k]) + 1, Len(Sys[k]))


TypeNameOf(k, ref) ==
    LET st == Sys[TypeStoreOf(k)]
    IN  st[CHOOSE i \in DOMAIN st : st[i].id = ref.id].name

Ranked == (last.op = "add_angle" /\ Len(angles) > Len(pre.angles))
          \/ (last.op = "add_dihedral" /\ Len(dihedrals) > Len(pre.dihedrals))
          \/ (last.op = "add_improper" /\ Len(impropers) > Len(pre.impropers))

RankedKind == CASE last.op = "add_angle" -> "angles"
                [] last.op = "add_dihedral" -> "dihedrals"
                [] last.op = "add_improper" -> "impropers"

RankedQuery == QueryName(pre, CASE last.op = "add_angle" -> "angle"
                                [] last.op = "add_dihedral" -> "dihedral"
                                [] last.op = "add_improper" -> "improper",
                         last.args)

RankedCandidates ==
    Candidates(pre, lib, TypeStoreOf(RankedKind), RankedQuery,
               last.op = "add_improper")

RankedFromCandidates ==
    /\ Ranked
    /\ lib.given
    /\ ContainerGet(pre[TypeStoreOf(RankedKind)], RankedQuery, FALSE,
                    last.op = "add_improper") = <<>>

ChosenName == TypeNameOf(RankedKind, Created(RankedKind)[1].type)

\* C4: when add_angle, add_dihedral or add_improper ranks several matching
\* candidates of the system and of the library, the type it gives the new
\* term is the candidate with the fewest wildcard tokens, and among those
\* with equally few the one met first.
C4_FewestWildcardsWins ==
    RankedFromCandidates =>
      \E i \in DOMAIN RankedCandidates :
         /\ RankedCandidates[i].name = ChosenName
         /\ \A j \in DOMAIN RankedCandidates :
               /\ WildTokens(RankedCandidates[j].name)
                    >= WildTokens(RankedCandidates[i].name)
               /\ j < i => WildTokens(RankedCandidates[j].name)
                             > WildTokens(RankedCandidates[i].name)

\* C5: every bond, angle, dihedral and improper has a type that is an
\* object of the system's own type store, and no type store holds two
\* copies of one library type or two types of one name.
C5_TypesOwnedAndImportedOnce ==
    /\ \A k \in TermKinds : \A i \in DOMAIN Sys[k] :
          /\ Sys[k][i].type.home = "sys"
          /\ \E j \in DOMAIN Sys[TypeStoreOf(k)] :
                Sys[TypeStoreOf(k)][j].id = Sys[k][i].type.id
    /\ \A k \in TermKinds :
          LET st == Sys[TypeStoreOf(k)] IN
          \A i, j \in DOMAIN st :
             i # j => /\ st[i].name # st[j].name
                      /\ (st[i].src # 0 => st[i].src # st[j].src)

C5_Witness ==
    /\ nadd = MaxAdds
    /\ lib.given
    /\ Len(angles) = Len(pre.angles) + 1
    /\ Len(pre.angles) > 0
    /\ angles[Len(angles)].type = angles[Len(pre.angles)].type
    /\ \E i \in DOMAIN angle_types :
          /\ angle_types[i].id = angles[Len(angles)].type.id
          /\ angle_types[i].src # 0
          /\ WildTokens(angle_types[i].name) > 0

(* ---------------- claims about the bonded-term synthesizer -------------- *)
\* a type for the name q can be found: in the system, or with a library
\* at hand among the wildcard names of the system and of the library
Resolvable(st, cat, ps, improper) ==
    LET q == QueryName(pre, cat, ps) IN
    \/ ContainerGet(pre[st], q, FALSE, improper) # <<>>
    \/ /\ lib.given
       /\ \/ ContainerGet(pre[st], q, TRUE, improper) # <<>>
          \/ ContainerGet(lib[st], q, TRUE, improper) # <<>>

ResolvableBond(a, b) ==
    LET q == QueryName(pre, "bond", <<a, b>>) IN
    \/ ContainerGet(pre.bond_types, q, TRUE, FALSE) # <<>>
    \/ lib.given /\ ContainerGet(lib.bond_types, q, TRUE, FALSE) # <<>>

Tuple(k, x) == CASE k = "bonds" -> <<x.a, x.b>>
                 [] k = "angles" -> <<x.a, x.b, x.c>>
                 [] k = "dihedrals" -> <<x.a, x.b, x.c, x.d>>
                 [] k = "impropers" -> <<x.a, x.b, x.c, x.d>>

CreatedTuples(k) == {Tuple(k, Created(k)[i]) : i \in DOMAIN Created(k)}

\* the terms of kind k created are exactly those of the set T, one each
CreatedExactly(k, T) ==
    /\ CreatedTuples(k) = T
    /\ Len(Created(k)) = Cardinality(T)

\* the neighbours of p once the bond p1-p2 is there
After(p, p1, p2) ==
    Nbrs(pre, p) \cup (IF p = p1 THEN {p2} ELSE IF p = p2 THEN {p1} ELSE {})

DerivedAngles(p1, p2) ==
    {<<n, p1, p2>> : n \in After(p1, p1, p2) \ {p2}}
    \cup {<<p1, p2, n>> : n \in After(p2, p1, p2) \ {p1}}

DerivedDihedrals(p1, p2) ==
    UNION {{<<m, n, p1, p2>> : m \in After(n, p1, p2) \ {p1}} :
              n \in After(p1, p1, p2) \ {p2}}
    \cup UNION {{<<p1, p2, n, m>> : m \in After(n, p1, p2) \ {p2}} :
              n \in After(p2, p1, p2) \ {p1}}
    \cup {<<n1, p1, p2, n2>> : n1 \in After(p1, p1, p2) \ {p2},
                               n2 \in After(p2, p1, p2) \ {p1}}

Triples(N) == {T \in SUBSET N : Cardinality(T) = 3}

Orders(T) == {<<b, c, d>> \in T \X T \X T : {b, c, d} = T}

HadImproper(p, T) ==
    \E i \in DOMAIN pre.impropers :
       pre.impropers[i].a = p
       /\ {pre.impropers[i].b, pre.impropers[i].c, pre.impropers[i].d} = T

CreatedImpropersOn(p, T) ==
    {i \in DOMAIN Created("impropers") :
        /\ Created("impropers")[i].a = p
        /\ {Created("impropers")[i].b, Created("impropers")[i].c,
            Created("impropers")[i].d} = T}

\* the impropers make_new_bonds derives for the end p: one for every set of
\* three neighbours that has none yet and that resolves in some order
ImpropersDerived(p, p1, p2) ==
    \A T \in Triples(After(p, p1, p2)) :
       Cardinality(CreatedImpropersOn(p, T)) =
          IF /\ ~HadImproper(p, T)
             /\ \E o \in Orders(T) :
                   Resolvable("improper_types", "improper",
                              <<p, o[1], o[2], o[3]>>, TRUE)
          THEN 1 ELSE 0

OnlyDerivedImpropers(p1, p2) ==
    \A i \in DOMAIN Created("impropers") :
       LET x == Created("impropers")[i] IN
       /\ x.a \in {p1, p2}
       /\ {x.b, x.c, x.d} \in Triples(After(x.a, p1, p2))

Unresolved(p1, p2) ==
    {t \in DerivedAngles(p1, p2) :
        ~Resolvable("angle_types", "angle", t, FALSE)}
    \cup {t \in DerivedDihedrals(p1, p2) :
        ~Resolvable("dihedral_types", "dihedral", t, FALSE)}

OneOtherNeighbourEach ==
    /\ last.op = "make_new_bonds"
    /\ Cardinality(Nbrs(pre, last.a) \ {last.b}) = 1
    /\ Cardinality(Nbrs(pre, last.b) \ {last.a}) = 1
    /\ ResolvableBond(last.a, last.b)
    /\ Unresolved(last.a, last.b) = {}

\* C7: make_new_bonds(p1, p2) between two particles that each have exactly
\* one other neighbour, n1 and n2, with every type resolving, makes the
\* bond, exactly the two angles (n1, p1, p2) and (p1, p2, n2), and exactly
\* one dihedral (n1, p1, p2, n2).
C7_TwoAnglesOneCrossDihedral ==
    OneOtherNeighbourEach =>
      LET p1 == last.a
          p2 == last.b
          n1 == CHOOSE n \in Nbrs(pre, p1) \ {p2} : TRUE
          n2 == CHOOSE n \in Nbrs(pre, p2) \ {p1} : TRUE
      IN  /\ CreatedExactly("bonds", {<<p1, p2>>})
          /\ CreatedExactly("angles", {<<n1, p1, p2>>, <<p1, p2, n2>>})
          /\ Len(Created("angles")) = 2
          /\ Cardinality({i \in DOMAIN Created("dihedrals") :
                Tuple("dihedrals", Created("dihedrals")[i])
                  = <<n1, p1, p2, n2>>}) = 1

C7_Witness ==
    /\ OneOtherNeighbourEach
    /\ last.b \notin Nbrs(pre, last.a)
    /\ Nbrs(pre, last.a) # Nbrs(pre, last.b)
    /\ Len(Created("angles")) = 2
    /\ Len(Created("dihedrals")) > 0

BondedToAngles(p, p0) == {<<n, p0, p>> : n \in Nbrs(pre, p0)}

BondedToDihedrals(p, p0) ==
    UNION {{<<m, n, p0, p>> : m \in Nbrs(pre, n) \ {p0}} : n \in Nbrs(pre, p0)}

AllBondedToResolvable ==
    /\ last.op = "add_particle_bonded_to"
    /\ ResolvableBond(last.b, last.a)
    /\ \A t \in BondedToAngles(last.a, last.b) :
          Resolvable("angle_types", "angle", t, FALSE)
    /\ \A t \in BondedToDihedrals(last.a, last.b) :
          Resolvable("dihedral_types", "dihedral", t, FALSE)

\* C8: add_particle_bonded_to(p, p0) with every type resolvable adds the
\* particle p, the bond p0-p, one angle (n, p0, p) for every neighbour n
\* that p0 had, one dihedral (m, n, p0, p) for every neighbour m of such an
\* n other than p0, and no other bonded term.
C8_ParticleBondedTo ==
    AllBondedToResolvable =>
      /\ ParticleIds(Sys) = ParticleIds(pre) \cup {last.a}
      /\ Len(particles) = Len(pre.particles) + 1
      /\ CreatedExactly("bonds", {<<last.b, last.a>>})
      /\ CreatedExactly("angles", BondedToAngles(last.a, last.b))
      /\ CreatedExactly("dihedrals", BondedToDihedrals(last.a, last.b))
      /\ Created("impropers") = <<>>

C8_Witness ==
    /\ AllBondedToResolvable
    /\ Cardinality(Nbrs(pre, last.b)) > 1
    /\ Len(Created("angles")) > 1
    /\ Len(Created("dihedrals")) > 0
    /\ last.a \notin ParticleIds(pre)

Owned(S, m) == {p \in ParticleIds(S) : S.pmol[p] = m}

HoldsMolecule(c, m) == \E i \in DOMAIN c : c[i].id = m

Merged(small, large) ==
    /\ Cardinality(Owned(pre, small)) <= Cardinality(Owned(pre, large))
    /\ \A p \in Owned(pre, small) : pmol[p] = large
    /\ ~HoldsMolecule(molecules, small)
    /\ Len(molecules) = Len(pre.molecules) - 1

\* C9: after make_new_bonds(p1, p2) with p1 and p2 in different molecules
\* every particle of the molecule that had fewer particles is owned by the
\* other molecule, the smaller molecule has left the molecules store and
\* the store holds one molecule less; with p1 and p2 in one molecule the
\* molecules store is unchanged.
C9_SmallerMoleculeMerged ==
    last.op = "make_new_bonds" =>
      LET m1 == pre.pmol[last.a]
          m2 == pre.pmol[last.b]
      IN  IF m1 = m2 THEN molecules = pre.molecules
          ELSE Merged(m1, m2) \/ Merged(m2, m1)

ImpropersOn(p, T) ==
    {i \in DOMAIN impropers :
        /\ impropers[i].a = p
        /\ {impropers[i].b, impropers[i].c, impropers[i].d} = T}

\* C10: after make_new_bonds in a class "2" system, however often it ran,
\* each end of the bond has at most one improper centred on it for every
\* set of three of its neighbours; in a system of another class
\* make_new_bonds adds no improper.
C10_ImpropersNotDuplicated ==
    last.op = "make_new_bonds" =>
      IF ff_class = "2"
      THEN \A p \in {last.a, last.b} : \A T \in Triples(Nbrs(Sys, p)) :
              Cardinality(ImpropersOn(p, T)) <= 1
      ELSE impropers = pre.impropers

C10_Witness ==
    /\ last.op = "make_new_bonds"
    /\ ff_class = "2"
    /\ nadd = MaxAdds
    /\ Len(Created("impropers")) > 0
    /\ \E p \in {last.a, last.b} : \E T \in Triples(Nbrs(Sys, p)) :
          HadImproper(p, T) /\ Cardinality(Nbrs(Sys, p)) > 3

(* ---------------------- claims about the data codec -------------------- *)

\* x and y are the same number up to the six decimals a file keeps
Close(x, y) ==
    IF IsNum(x) /\ IsNum(y)
    THEN Ticks(x) - Ticks(y) <= 5 /\ Ticks(y) - Ticks(x) <= 5
    ELSE IF x.k = "list" /\ y.k = "list"
    THEN /\ Len(x.v) = Len(y.v)
         /\ \A i \in DOMAIN x.v : /\ Ticks(x.v[i]) - Ticks(y.v[i]) <= 5
                                  /\ Ticks(y.v[i]) - Ticks(x.v[i]) <= 5
    ELSE x.k = y.k

SameCounts(L) == \A c \in StoreNames : Count(Sys[c]) = Count(L[c])

SameCoeffs(L) ==
    \A c \in TypeStores : \A i \in DOMAIN Sys[c] :
        /\ HasTag(L[c], Sys[c][i].tag)
        /\ \A a \in DOMAIN Sys[c][i].at :
              Close(Attr(Sys[c][i], a), Attr(ItemAt(L[c], Sys[c][i].tag), a))

RoundTrips == loaded.st = "ok" /\ SameCounts(loaded) /\ SameCoeffs(loaded)

\* the styles whose records the reader tells apart by their field count
ArityTellsStyle ==
    style.angle # "charmm" /\ style.dihedral \notin {"charmm", "opls"}

\* C3: write_lammps followed by read_lammps of the written text yields a
\* system with the same number of particles, bonds, angles, dihedrals and
\* impropers, the same number of types in each type store and the same
\* coefficients on each type tag, for every supported style family
C3_RoundTrip ==
    (last.op = "read_lammps" /\ write_coeffs) => RoundTrips

\* the round trip when the reader is handed the styles of the writer
RoundTripWhenTold ==
    (last.op = "read_lammps" /\ write_coeffs /\ last.upd) => RoundTrips

\* the round trip of the styles the field count identifies
RoundTripWhenArityTells ==
    (last.op = "read_lammps" /\ write_coeffs /\ ArityTellsStyle) => RoundTrips

(* ------------------------ claims about add_bond ------------------------ *)
\* q is in the bonded-neighbour set of p
BondedNeighbour(p, q) ==
    bonded_to[p].has /\ \E i \in DOMAIN bonded_to[p].to : bonded_to[p].to[i] = q

\* the last call was an add_bond that added its Bond
BondAdded == last.op = "add_bond" /\ Len(bonds) = Len(pre.bonds) + 1

\* C11: after add_bond(a, b) added its Bond, b is in the bonded-neighbour set
\* of a and a is in that of b, whether the sets were absent, empty or not
C11_BondedBothWays ==
    BondAdded => /\ BondedNeighbour(last.a, last.b)
                 /\ BondedNeighbour(last.b, last.a)

\* the same when neither set was present and empty before the call
BondedBothWaysUnlessEmpty ==
    (BondAdded /\ \A p \in {last.a, last.b} :
                     ~pre.bonded_to[p].has \/ pre.bonded_to[p].to # <<>>)
    => /\ BondedNeighbour(last.a, last.b)
       /\ BondedNeighbour(last.b, last.a)

(* ------------------ claims about degenerate terms ---------------------- *)
AddCalls == {"add_bond", "add_angle", "add_dihedral", "add_improper"}

\* the last call was an add_ whose first and last particle are the same
SameEnds == last.op \in AddCalls /\ last.args[1] = last.args[Len(last.args)]

\* the call left every store of terms and of types as it was
NothingAdded ==
    \A c \in {"bonds", "angles", "dihedrals", "impropers", "bond_types",
               "angle_types", "dihedral_types", "improper_types"} :
        Sys[c] = pre[c]

\* C12: add_bond, add_angle, add_dihedral or add_improper called with the
\* same particle first and last adds no bonded term and no type
C12_SameEndsRejected == SameEnds => NothingAdded

\* the same for the three calls other than add_dihedral
SameEndsRejectedButDihedral ==
    (SameEnds /\ last.op # "add_dihedral") => NothingAdded

(* ---------------------- claims about the geometry ---------------------- *)
\* the particle p lies in the closed box on every axis
InBox(p) ==
    \A a \in Axes : Lo(dim)[a] <= coords[p][a] /\ coords[p][a] <= Hi(dim)[a]

C14_WrappedHalfOpen ==
    last.op = "wrap" =>
        \A p \in ParticleIds(Sys) : \A a \in Axes :
            Lo(dim)[a] <= coords[p][a] /\ coords[p][a] < Hi(dim)[a]

\* after wrap every particle lies in the closed box
WrappedInBox == last.op = "wrap" => \A p \in ParticleIds(Sys) : InBox(p)

\* the bond b spans at most half the box on every axis
Short(b) ==
    \A a \in Axes : 2 * Abs(coords[b.a][a] - coords[b.b][a]) <= Extent(dim)[a]

\* C15: after unwrap no bond crosses a box edge: on every axis the two
\* particles of every bond are at most half the box extent apart
C15_NoBondCrossesEdge ==
    last.op = "unwrap" => \A i \in DOMAIN bonds : Short(bonds[i])

\* the bonds form a ring
Cyclic == Len(bonds) >= Len(particles)

\* the same for a molecule without a ring
NoBondCrossesEdgeInTree ==
    (last.op = "unwrap" /\ ~Cyclic) => \A i \in DOMAIN bonds : Short(bonds[i])

\* C16: when the bond-length check of unwrap fails, unwrap returns False
\* and the particles are wrapped again: every particle lies inside the box
C16_FailedUnwrapRewraps ==
    (last.op = "unwrap" /\ returned = "False")
    => \A p \in ParticleIds(Sys) : InBox(p)

(* ------------------ claims about the improper columns ------------------ *)
\* the tag of the particle p in the system that was written
TagOf(p) == particles[CHOOSE i \in DOMAIN particles : particles[i].id = p].tag

\* the improper read back under the tag of m has the particles of m as its
\* a, b, c and d
SameAtoms(L, m) ==
    /\ HasTag(L.impropers, m.tag)
    /\ ItemAt(L.impropers, m.tag).a = TagOf(m.a)
    /\ ItemAt(L.impropers, m.tag).b = TagOf(m.b)
    /\ ItemAt(L.impropers, m.tag).c = TagOf(m.c)
    /\ ItemAt(L.impropers, m.tag).d = TagOf(m.d)

\* a system with impropers was written and read back
ImpropersRead ==
    last.op = "read_lammps" /\ loaded.st = "ok" /\ Count(impropers) > 0

\* C17: the reader transposes the first two atom columns of an Impropers
\* record exactly when the writer did: after write_lammps and read_lammps
\* every improper has the same central atom a and the same b, c and d, for
\* a class 2 system and for a class 1 system
C17_ImproperColumnsAgree ==
    ImpropersRead => \A i \in DOMAIN impropers : SameAtoms(loaded, impropers[i])

\* the same when the coefficients were written and the field counts name
\* the styles, or the reader was handed the styles
ImproperColumnsAgreeWhenStylesKnown ==
    (ImpropersRead /\ (last.upd \/ (write_coeffs /\ ArityTellsStyle)))
    => \A i \in DOMAIN impropers : SameAtoms(loaded, impropers[i])

(* ------------------------------- C18 ----------------------------------- *)
\* the style the field count n names in a family
GuessOf(fam, n) ==
    CASE fam = "pair" -> ParticleType_guess_style(n)
      [] fam = "bond" -> BondType_guess_style(n)
      [] fam = "angle" -> AngleType_guess_style(n)
      [] fam = "dihedral" -> DihedralType_guess_style(n)
      [] fam = "improper" -> ImproperType_guess_style(n)

\* the field counts a record of the style s may hold
Fits(fam, s, n) ==
    CASE fam = "pair" ->
           \/ (StartsWith(s, "lj") \/ StartsWith(s, "class2")) /\ n = 2
           \/ StartsWith(s, "charmm") /\ n \in {2, 4}
           \/ StartsWith(s, "buck") /\ n = 3
      [] fam \in {"bond", "angle"} ->
           \/ StartsWith(s, "harm") /\ n = 2
           \/ StartsWith(s, "class2") /\ n = 4
           \/ fam = "angle" /\ StartsWith(s, "charmm") /\ n = 4
      [] fam = "dihedral" ->
           \/ StartsWith(s, "harm") /\ n = 3
           \/ StartsWith(s, "fourier") /\ n % 3 = 1
           \/ StartsWith(s, "class2") /\ n = 6
           \/ (StartsWith(s, "charmm") \/ StartsWith(s, "opls")) /\ n = 4
      [] fam = "improper" ->
           \/ (StartsWith(s, "harm") \/ StartsWith(s, "class2")
               \/ StartsWith(s, "umbrella")) /\ n = 2
           \/ StartsWith(s, "cvff") /\ n = 3

\* the last call read, without being told the styles, a text in which a
\* record after the first of a coefficient section has another field count
LaterRecordEdited ==
    /\ last.op = "read_lammps"
    /\ ~last.upd
    /\ last.args[1] \in {"shorter", "shortest", "longer"}
    /\ last.args[2] \in DOMAIN FamilyOf
    /\ last.a >= 2

EditedFamily == FamilyOf[last.args[2]]

FirstRecord == data.lines[SectionAt(data.lines, last.args[2]) + 2]

EditedRecord ==
    Edited(data.lines, Edit(last.args[1], last.args[2], last.a))
        [EditAt(data.lines, Edit(last.args[1], last.args[2], last.a))]

\* the style the first record of the edited section names
FirstGuess == GuessOf(EditedFamily, NParam(FirstRecord))

\* C18: when read_lammps is given no styles, the style of a family is the
\* one the field count of the first record of its section names, and it
\* holds for the later records: a later record whose field count does not
\* fit it makes the read fail, and a read that succeeds returns one style
\* that the first record and the later record both fit.
C18_StyleFixedByFirstRecord ==
    LaterRecordEdited =>
        /\ ~Fits(EditedFamily, FirstGuess, NParam(EditedRecord)) =>
              loaded.st = "error"
        /\ loaded.st = "ok" =>
              /\ Fits(EditedFamily, loaded.style[EditedFamily], NParam(FirstRecord))
              /\ Fits(EditedFamily, loaded.style[EditedFamily],
                      NParam(EditedRecord))

\* a later record whose field count names another style made the read fail
C18_Witness ==
    /\ LaterRecordEdited
    /\ FirstGuess # Cannot
    /\ GuessOf(EditedFamily, NParam(EditedRecord)) \notin {Cannot, FirstGuess}
    /\ ~Fits(EditedFamily, FirstGuess, NParam(EditedRecord))
    /\ loaded.st = "error"

(* ------------------------------- C20 ----------------------------------- *)
\* the last call read a text in which one section holds a record fewer, or
\* a record more, than the header declares
RecordLeftOut == last.op = "read_lammps" /\ last.args[1] = "left out"

RecordTwice == last.op = "read_lammps" /\ last.args[1] = "twice"

\* C20: reading a text in which a section holds fewer or more records than
\* the count the header declares fails with an error and returns no system.
C20_CountMismatchAborts ==
    (RecordLeftOut \/ RecordTwice) => loaded.st = "error"

\* a section that holds fewer records than declared makes the read fail
FewerRecordsAbort == RecordLeftOut => loaded.st = "error"

(* ------------------------------- C19 ----------------------------------- *)
\* the cross-term sections, in the order of the text, each with the family
\* and the type store it belongs to
CrossSections ==
    << <<"BondBond", "angle", "angle_types">>,
       <<"BondAngle", "angle", "angle_types">>,
       <<"MiddleBondTorsion", "dihedral", "dihedral_types">>,
       <<"EndBondTorsion", "dihedral", "dihedral_types">>,
       <<"AngleTorsion", "dihedral", "dihedral_types">>,
       <<"AngleAngleTorsion", "dihedral", "dihedral_types">>,
       <<"BondBond13", "dihedral", "dihedral_types">>,
       <<"AngleAngle", "improper", "improper_types">> >>

\* the coefficient section of a family
BaseSection == [angle |-> "Angle", dihedral |-> "Dihedral", improper |-> "Improper"]

Emitted(kind) == SectionAt(data.lines, kind) # 0

TextWritten == last.op = "write_lammps" /\ data.st = "ok"

\* every cross-term section of the text follows the coefficient section of
\* its family and the cross-term sections before it, and comes before the
\* coefficient sections of the families after
InFixedOrder ==
    \A i \in DOMAIN CrossSections :
        Emitted(CrossSections[i][1]) =>
            /\ Emitted(BaseSection[CrossSections[i][2]])
            /\ SectionAt(data.lines, BaseSection[CrossSections[i][2]])
                  < SectionAt(data.lines, CrossSections[i][1])
            /\ \A j \in DOMAIN CrossSections :
                  (j < i /\ Emitted(CrossSections[j][1])) =>
                      SectionAt(data.lines, CrossSections[j][1])
                          < SectionAt(data.lines, CrossSections[i][1])
            /\ \A j \in DOMAIN CrossSections :
                  (j > i /\ CrossSections[j][2] # CrossSections[i][2]
                         /\ Emitted(BaseSection[CrossSections[j][2]])) =>
                      SectionAt(data.lines, CrossSections[i][1])
                          < SectionAt(data.lines, BaseSection[CrossSections[j][2]])

ParticleTags(L) == {L.particles[i].tag : i \in DOMAIN L.particles}

\* the system objectify was called on held a term that names a tag that is
\* not in particles
Dangling(L) ==
    \E st \in {"bonds", "angles", "dihedrals", "impropers"} :
        \E i \in DOMAIN L[st] :
            \E f \in DOMAIN L[st][i] \cap {"a", "b", "c", "d"} :
                L[st][i][f] \notin ParticleTags(L)

FirstObjectify == last.op = "objectify" /\ ~last.upd

\* C21: objectify on a system in which a bond, angle, dihedral or improper
\* names a particle tag that is not in particles completes without raising,
\* and the term stays in its store with the absent reference.
C21_ObjectifyCompletes ==
    (FirstObjectify /\ Dangling(loaded)) =>
        /\ returned # "raise"
        /\ loaded.objectified

\* the references objectify reads at once: both ends of a bond, the first
\* atom of an angle, dihedral or improper
UsedAtOnce(L) ==
    \/ \E i \in DOMAIN L.bonds : {L.bonds[i].a, L.bonds[i].b} \cap {0} # {}
    \/ \E st \in {"angles", "dihedrals", "impropers"} :
          \E i \in DOMAIN L[st] : L[st][i].a = 0

\* objectify raises exactly when a reference it reads at once is absent
ObjectifyRaisesOnUsedReference ==
    (FirstObjectify /\ loaded.bonds # <<>>) =>
        (returned = "raise" <=> UsedAtOnce(loaded))

(* ------------------------------- C22 ----------------------------------- *)
\* the molecules of the store that own no particle of the system
EmptyMolecules ==
    {molecules[i].id : i \in DOMAIN molecules} \ {pmol[p] : p \in ParticleIds(Sys)}

\* C22: after any sequence of particle removals, cleanup passes
\* (remove_spare_bonding, update_tags) and make_new_bonds merges, the
\* molecules store holds no Molecule that owns none of the particles of the
\* system.
C22_NoMoleculeWithoutParticles == EmptyMolecules = {}

\* a merge leaves no molecule without particles when there was none before
MergeLeavesNoEmptyMolecule ==
    (last.op = "make_new_bonds"
     /\ {pre.molecules[i].id : i \in DOMAIN pre.molecules}
            \subseteq {pre.pmol[p] : p \in ParticleIds(pre)})
        => EmptyMolecules = {}

(* ------------------------------- C23 ----------------------------------- *)
CopyCall == last.op \in {"copy", "copy.add_bond"}

\* every Particle met inside the copy is one of the copy's own
OwnedByCopy(C) ==
    \A p \in ParticleIds(C) :
        \A i \in DOMAIN C.bonded_to[p].to : C.bonded_to[p].to[i] > 0

\* C23: a system returned by copy() shares no object with its source: every
\* reference inside the copy resolves to an object of the copy, and a change
\* made to the copy leaves the source as it was.
C23_CopySharesNothing ==
    CopyCall => OwnedByCopy(loaded.sys) /\ Sys = pre

\* C23, as the code has it: the copy is apart from its source when no
\* Particle of the source holds a bonded_to container the copy was handed.
CopyApartUnlessIndexed ==
    CopyCall /\ loaded.shared = {} => OwnedByCopy(loaded.sys) /\ Sys = pre

\* a bond added to the copy shows in the bonded_to of a Particle of the source
C23_Reached ==
    /\ last.op = "copy.add_bond"
    /\ \E p \in ParticleIds(Sys) :
          \E i \in DOMAIN bonded_to[p].to : bonded_to[p].to[i] < 0

(* ------------------------------- C24 ----------------------------------- *)
\* the terms of S that refer to particle p
TermsOn(S, p) ==
    [st \in {"bonds", "angles", "dihedrals", "impropers"} |->
        TermsGone(S[st], p)]

NoTermOn(S, p) == \A st \in DOMAIN TermsOn(S, p) : TermsOn(S, p)[st] = {}

\* C24: after p.delete_bonding(s), s holds no bond, angle, dihedral or
\* improper that refers to p, whatever was added since p.bonds was built.
C24_NoTermLeftOnParticle ==
    last.op = "delete_bonding" => NoTermOn(Sys, last.a)

\* p.bonds lists every Bond of s.bonds that refers to p
ListedAll(S, p) ==
    \A i \in DOMAIN S.bonds :
        p \in {S.bonds[i].a, S.bonds[i].b} => S.bonds[i].tag \in Range(S.pbonds[p].of)

\* C24, as the code has it: no angle, dihedral or improper on p is left, and
\* no bond either when p.bonds is empty or lists every bond on p.
NoTermLeftWhenListed ==
    last.op = "delete_bonding" =>
        /\ \A st \in {"angles", "dihedrals", "impropers"} :
              TermsOn(Sys, last.a)[st] = {}
        /\ (pre.pbonds[last.a].of = <<>> \/ ListedAll(pre, last.a))
              => NoTermOn(Sys, last.a)

\* a bond added after p.bonds was built outlives p.delete_bonding(s)
C24_Reached ==
    /\ last.op = "delete_bonding"
    /\ pre.pbonds[last.a].of # <<>>
    /\ TermsOn(Sys, last.a).bonds # {}

(* ------------------------------- C25 ----------------------------------- *)
\* the terms that arrived with the last add
Arrived(kind) == SubSeq(Sys[kind], Len(pre[kind]) + 1, Len(Sys[kind]))

InOwnStore(kind, ref) ==
    /\ ref.home = "sys"
    /\ \E i \in DOMAIN Sys[TypeStoreOf(kind)] : Sys[TypeStoreOf(kind)][i].id = ref.id

AddedUnique == last.op = "add" /\ last.upd

\* no type of other whose name self already had was added again
NoNameAddedAgain ==
    \A st \in TypeStores :
        \A i \in DOMAIN Sys[st] :
            i > Len(pre[st]) => Sys[st][i].name \notin TypeNames(pre[st])

\* C25: after self.add(other) with unique_types left True, every term that
\* came from other has a type that is in the matching type store of self,
\* and no type whose name self already had has been added a second time.
C25_AddedTermsUseOwnTypes ==
    AddedUnique =>
        /\ \A kind \in TermKinds :
              \A i \in DOMAIN Arrived(kind) : InOwnStore(kind, Arrived(kind)[i].type)
        /\ NoNameAddedAgain

\* the types of self a lookup of the name of the type of x brings back
Matching(kind, x) ==
    ContainerGet(Sys[TypeStoreOf(kind)],
                 (last.args[1].sys[TypeStoreOf(kind)])[
                     CHOOSE i \in DOMAIN last.args[1].sys[TypeStoreOf(kind)] :
                        last.args[1].sys[TypeStoreOf(kind)][i].id = x.type.id].name,
                 TRUE, FALSE)

\* C25, as the code has it: no name is added again, and a bond or angle
\* keeps the type object of other only when self already had its name and
\* the lookup of that name brings back more than one type of self.
AddedTermsUseOwnTypesUnlessAmbiguous ==
    AddedUnique =>
        /\ NoNameAddedAgain
        /\ \A kind \in TermKinds :
              \A i \in DOMAIN Arrived(kind) :
                 \/ InOwnStore(kind, Arrived(kind)[i].type)
                 \/ /\ kind \in {"bonds", "angles"}
                    /\ Arrived(kind)[i].type.home = "other"
                    /\ Len(Matching(kind, last.args[1].sys[kind][i])) > 1

\* a bond that came from other keeps a type that is in no store of self
C25_Reached ==
    /\ AddedUnique
    /\ \E i \in DOMAIN Arrived("bonds") : Arrived("bonds")[i].type.home = "other"

(* ------------------------------- C26 ----------------------------------- *)
\* every term of S has a type that is in its type store
TypesInStore(S) ==
    \A kind \in TermKinds :
        \A i \in DOMAIN S[kind] :
            /\ S[kind][i].type.home = "sys"
            /\ \E j \in DOMAIN S[TypeStoreOf(kind)] :
                  S[TypeStoreOf(kind)][j].id = S[kind][i].type.id

NoNameTwice(S) == \A st \in TypeStores : ~Duplicated(S[st])

\* C26: after consolidate_types() of a system whose terms have types of its
\* stores, no two types of a store have the same name and every term still
\* has a type that is in its store, however many types share a name.
C26_ConsolidateLeavesOneOfEachName ==
    last.op = "consolidate_types" /\ TypesInStore(pre)
        => NoNameTwice(Sys) /\ TypesInStore(Sys)

\* C26, where it holds: with no name held twice the call changes nothing,
\* and a call whose loops run to their end leaves no name twice.
ConsolidateKeepsDistinctNames ==
    last.op = "consolidate_types" =>
        /\ NoNameTwice(pre) => Sys = pre /\ ~last.args[2]
        /\ ~last.args[2] => NoNameTwice(Sys)

\* the call ran to its end and a term is left with a type that was removed
C26_Reached ==
    /\ last.op = "consolidate_types" /\ ~last.args[2]
    /\ TypesInStore(pre) /\ ~TypesInStore(Sys)

\* the call was cut short and a name is still held twice
C26_ReachedCutShort ==
    /\ last.op = "consolidate_types" /\ last.args[2]
    /\ ~NoNameTwice(Sys)

(* ------------------------------- C27 ----------------------------------- *)
\* p.molecule is in the molecules store and lists p among its particles
HeldByItsMolecule(S, p) ==
    /\ HoldsMolecule(S.molecules, S.pmol[p])
    /\ p \in Range(S.mparts[S.pmol[p]])

\* C27: after any sequence of make_new_bonds calls every particle p has
\* p.molecule in the molecules store and p in p.molecule.particles, so the
\* particle count of a molecule is the number of particles it owns.
C27_ParticlesHeldByTheirMolecule ==
    \A p \in ParticleIds(Sys) :
        /\ HeldByItsMolecule(Sys, p)
        /\ Count(mparts[pmol[p]]) = Cardinality(Owned(Sys, pmol[p]))

\* C27, as the code has it: a molecule of the store owns the particles it
\* lists, and may own more than it lists.
ListedParticlesAreOwned ==
    \A i \in DOMAIN molecules :
        Range(mparts[molecules[i].id]) \subseteq Owned(Sys, molecules[i].id)

\* after two merges a particle is owned by a molecule that left the store
C27_Reached ==
    /\ last.op = "make_new_bonds"
    /\ \E p \in ParticleIds(Sys) : ~HoldsMolecule(molecules, pmol[p])

(* ------------------------------- C28 ----------------------------------- *)
\* s.bonds holds a bond between x and y
HasBond(S, x, y) ==
    \E i \in DOMAIN S.bonds : {S.bonds[i].a, S.bonds[i].b} = {x, y}

\* every angle and every dihedral of S runs along bonds of S
AlongBonds(S) ==
    /\ \A i \in DOMAIN S.angles :
          /\ HasBond(S, S.angles[i].a, S.angles[i].b)
          /\ HasBond(S, S.angles[i].b, S.angles[i].c)
    /\ \A i \in DOMAIN S.dihedrals :
          /\ HasBond(S, S.dihedrals[i].a, S.dihedrals[i].b)
          /\ HasBond(S, S.dihedrals[i].b, S.dihedrals[i].c)
          /\ HasBond(S, S.dihedrals[i].c, S.dihedrals[i].d)

\* C28: after any sequence of add_particle_bonded_to and make_new_bonds
\* calls on a system whose angles and dihedrals run along bonds, every angle
\* and dihedral still runs along bonds of the store; when the bond of the
\* call is not made, no angle or dihedral across it is made.
C28_TermsRunAlongBonds == AlongBonds(Sys)

\* the last call made no bond between its two particles and yet an angle or
\* dihedral across them
C28_Reached ==
    /\ last.op \in {"make_new_bonds", "add_particle_bonded_to"}
    /\ ~HasBond(Sys, last.a, last.b)
    /\ Len(angles) + Len(dihedrals) > Len(pre.angles) + Len(pre.dihedrals)

\* C28, as the code has it: the terms stay along bonds through every call
\* that makes the bond between its two particles.
AlongBondsWhenBondMade ==
    /\ last.op \in {"make_new_bonds", "add_particle_bonded_to"}
    /\ AlongBonds(pre) /\ HasBond(Sys, last.a, last.b)
    => AlongBonds(Sys)

(* ------------------------------- C29 ----------------------------------- *)
\* C29: after update_types with lists for all five stores, every bond,
\* angle, dihedral and improper has a type that is in the replaced store:
\* no term keeps a type the update discarded.
C29_NoDiscardedTypeKept ==
    last.op = "update_types" /\ TypesInStore(pre) => TypesInStore(Sys)

\* C29, as the code has it: the terms keep types of the stores when the
\* lists hold the very objects the stores held.
TypesKeptWhenHeld ==
    last.op = "update_types" /\ last.args[1] = "held" /\ TypesInStore(pre)
        => TypesInStore(Sys)

\* new type objects were handed over and a bond is left with a discarded one
C29_Reached ==
    /\ last.op = "update_types" /\ last.args[1] = "new"
    /\ TypesInStore(pre)
    /\ \E i \in DOMAIN bonds :
          ~\E j \in DOMAIN bond_types : bond_types[j].id = bonds[i].type.id


(* C30: for every box with a strictly positive extent on each axis and     *)
(* finite coordinates, a call of wrap() and a call of unwrap() return:     *)
(* whenever one of them is running, it is later running no more.           *)
C30_WrapAndUnwrapReturn == Running ~> ~Running

\* the step the call in progress takes next leaves everything as it is: the
\* box length was lost in the rounding of the shifted coordinate
Absorbed ==
    /\ Running
    /\ \/ /\ last.op = "wrap" /\ last.a <= Len(particles)
          /\ WrapStepped(Sys, coords, dim, last.a, last.b).c = coords
          /\ WrapStepped(Sys, coords, dim, last.a, last.b).i = last.a
          /\ WrapStepped(Sys, coords, dim, last.a, last.b).k = last.b
       \/ /\ last.op = "unwrap" /\ last.args[3].pc \in Axes
          /\ UnwrapStepped(Sys, coords, dim, last.args[3]).c = coords
          /\ UnwrapStepped(Sys, coords, dim, last.args[3]).f = last.args[3]

\* C30 as the code has it: a running call returns unless it reaches a shift
\* that the rounding absorbs
ReturnUnlessAbsorbed == Running ~> (~Running \/ Absorbed)

\* a call is stuck in a loop whose shift is absorbed
C30_Reached == Absorbed

====
